---- MODULE Spec2Model ----
(***************************************************************************)
(* Model of the Figma CLI (Inkstellar/figCli).                             *)
(*                                                                         *)
(* Part 1: figmaApiRequest (src/src/commands/figma.ts:348-423), the retry  *)
(* loop that every design-tree fetch goes through.  One call is modelled   *)
(* step by step: the loop test, the fetch, the classification of the       *)
(* response, the catch block, the two sleeps and the final throw.          *)
(*                                                                         *)
(* Strings are sequences of tokens (words, punctuation, single digits), so *)
(* that String.includes is a real search for a contiguous run of tokens.   *)
(* JavaScript numbers are records [nan, v] so that parseInt can yield NaN  *)
(* and Math.min can propagate it.  Times are in milliseconds.              *)
(***************************************************************************)
EXTENDS Integers, Sequences, FiniteSets, TLC

\* Largest maxRetries a call is made with.
MaxRetriesBound == 7

\* ------------------------------------------------------------------------
\* JavaScript numbers
\* ------------------------------------------------------------------------
Num(n) == [nan |-> FALSE, v |-> n]

NaN == [nan |-> TRUE, v |-> 0]

\* Math.min(a, b): NaN if either argument is NaN.
MathMin(a, b) ==
    IF a.nan \/ b.nan THEN NaN
    ELSE IF a.v <= b.v THEN a ELSE b

\* a * k for a constant k.
Times(a, k) == IF a.nan THEN NaN ELSE Num(a.v * k)

RECURSIVE Pow2(_)
\* Math.pow(2, e) for e >= 0.
Pow2(e) == IF e <= 0 THEN 1 ELSE 2 * Pow2(e - 1)

\* ------------------------------------------------------------------------
\* Strings as token sequences
\* ------------------------------------------------------------------------
DigitChars == <<"0", "1", "2", "3", "4", "5", "6", "7", "8", "9">>

IsDigit(c) == \E i \in 1..10 : DigitChars[i] = c

DigitValue(c) == (CHOOSE i \in 1..10 : DigitChars[i] = c) - 1

RECURSIVE NumberToString(_)
\* `${n}` for a non-negative integer: its decimal digits.
NumberToString(n) ==
    IF n < 10 THEN <<DigitChars[n + 1]>>
    ELSE NumberToString(n \div 10) \o <<DigitChars[(n % 10) + 1]>>

\* msg.includes(marker)
Includes(msg, marker) ==
    \E i \in 0..(Len(msg) - Len(marker)) :
        \A j \in 1..Len(marker) : msg[i + j] = marker[j]

RECURSIVE ParseDigits(_, _, _)
\* The value of the longest prefix of digits of s from position i on, with
\* acc the value read so far.
ParseDigits(s, i, acc) ==
    IF i <= Len(s) /\ IsDigit(s[i])
    THEN ParseDigits(s, i + 1, acc * 10 + DigitValue(s[i]))
    ELSE acc

\* parseInt(s): optional sign, then the longest prefix of digits; NaN when
\* there is no digit to read.
ParseInt(s) ==
    LET signed == Len(s) >= 1 /\ s[1] \in {"-", "+"}
        start  == IF signed THEN 2 ELSE 1
    IN  IF start > Len(s) \/ ~IsDigit(s[start]) THEN NaN
        ELSE IF signed /\ s[1] = "-" THEN Num(0 - ParseDigits(s, start, 0))
        ELSE Num(ParseDigits(s, start, 0))

\* ------------------------------------------------------------------------
\* Error messages of figmaApiRequest
\* ------------------------------------------------------------------------
MsgRateLimit(maxR) ==
    <<"Rate", "limit", "exceeded", "after">> \o NumberToString(maxR) \o
    <<"attempts", ".", "Please", "wait", "a", "few", "minutes", "and",
      "try", "again", ".">>

MsgNotFound ==
    <<"File", "not", "found", "or", "you", "do", "not", "have", "access",
      "to", "this", "file", ".">>

MsgInvalidToken ==
    <<"Invalid", "Figma", "token", ".", "Please", "check", "your",
      "FIGMA_TOKEN", ".">>

MsgStatus(status) ==
    <<"API", "request", "failed", "with", "status">> \o NumberToString(status)

Marker401 == <<"4", "0", "1">>

Marker404 == <<"4", "0", "4">>

MarkerInvalidToken == <<"Invalid", "Figma", "token">>

\* A thrown value: an Error object with a message, or any other value with
\* its String() form.
ErrorObj(msg) == [isError |-> TRUE, msg |-> msg]

NoError == [isError |-> FALSE, msg |-> <<>>]

Undefined == [defined |-> FALSE, msg |-> <<>>]

Defined(msg) == [defined |-> TRUE, msg |-> msg]

\* error instanceof Error ? error : new Error(String(error))
ToError(error) == Defined(error.msg)

\* The catch block's "don't retry on certain errors" test, without the
\* search for 404.
IsTerminalErrorNo404Marker(error) ==
    /\ error.isError
    /\ \/ Includes(error.msg, Marker401)
       \/ Includes(error.msg, MarkerInvalidToken)

\* The catch block's "don't retry on certain errors" test, with the markers
\* swapped for ones the 401 message does not carry.
IsTerminalErrorNoTokenMarker(error) ==
    /\ error.isError
    /\ \/ Includes(error.msg, Marker401)
       \/ Includes(error.msg, Marker404)

\* The catch block's "don't retry on certain errors" test.
IsTerminalError(error) ==
    /\ error.isError
    /\ \/ Includes(error.msg, Marker401)
       \/ Includes(error.msg, Marker404)
       \/ Includes(error.msg, MarkerInvalidToken)

\* ------------------------------------------------------------------------
\* The inputs of one attempt
\* ------------------------------------------------------------------------
NullHeader == [present |-> FALSE, val |-> <<>>]

Header(s) == [present |-> TRUE, val |-> s]

\* Values of the retry-after header: absent, empty, delay-seconds, and an
\* HTTP-date (which starts with a day name).
RetryAfterHeaders ==
    {NullHeader, Header(<<>>), Header(<<"0">>), Header(<<"2">>),
     Header(<<"4", "5">>), Header(<<"W", "e", "d", ",">>)}

\* Response bodies: two JSON documents and one that is not JSON.
JsonBodies == {"doc1", "doc2"}

Bodies == JsonBodies \cup {"notjson"}

OkStatuses == {200, 201}

ErrorStatuses == {401, 403, 404, 429, 500}

NoResponse == [kind |-> "none", status |-> 0, hdr |-> NullHeader, body |-> "none"]

Rejected == [kind |-> "rejected", status |-> 0, hdr |-> NullHeader, body |-> "none"]

Responses ==
    {[kind |-> "response", status |-> s, hdr |-> NullHeader, body |-> b] :
        s \in OkStatuses, b \in Bodies}
    \cup
    {[kind |-> "response", status |-> s, hdr |-> NullHeader, body |-> "doc1"] :
        s \in ErrorStatuses \ {429}}
    \cup
    {[kind |-> "response", status |-> 429, hdr |-> h, body |-> "doc1"] :
        h \in RetryAfterHeaders}

\* What fetch() can reject with: transport errors whose message quotes the
\* request URL (which may hold the digits 404 or 401, as in a node id), and
\* a value that is not an Error object.
FetchRejections ==
    {ErrorObj(<<"request", "to", "url", "failed", ",", "reason", ":", "ECONNRESET">>),
     ErrorObj(<<"request", "to", "url", "4", "0", "4", "failed", ",", "reason", ":", "ETIMEDOUT">>),
     ErrorObj(<<"request", "to", "url", "1", "4", "0", "1", "failed", ",", "reason", ":", "ENOTFOUND">>),
     [isError |-> FALSE, msg |-> <<"4", "0", "4">>]}

\* What response.json() rejects with on a body that is not JSON.
JsonRejection ==
    ErrorObj(<<"invalid", "json", "response", "body", "at", "url", "reason", ":",
               "Unexpected", "token">>)

\* ------------------------------------------------------------------------
\* The decisions of the loop
\* ------------------------------------------------------------------------
\* for (...; attempt <= maxRetries; ...)
LoopCondition(a, maxR) == a <= maxR

\* attempt++, left out.
NextAttemptStuck(a) == a

\* attempt++
NextAttempt(a) == a + 1

\* response.ok, narrowed to 200 alone.
ResponseOkOnly200(status) == status = 200

\* response.ok
ResponseOk(status) == status >= 200 /\ status <= 299

\* headers.get('retry-after') || '60'
RetryAfterText(hdr) ==
    IF hdr.present /\ hdr.val # <<>> THEN hdr.val ELSE <<"6", "0">>

\* parseInt(response.headers.get('retry-after') || '60')
RetryAfterOf(hdr) == ParseInt(RetryAfterText(hdr))

\* The 429 wait, using the header on every attempt.
RateLimitWaitHeaderAlways(a, ra) == MathMin(Times(ra, 1000), Num(30000))

\* attempt === 1 ? Math.min(retryAfter * 1000, 30000) : Math.pow(2, attempt - 1) * 1000
RateLimitWait(a, ra) ==
    IF a = 1 THEN MathMin(Times(ra, 1000), Num(30000))
    ELSE Num(Pow2(a - 1) * 1000)

\* The 429 branch's test, off by one.
AttemptsRemainInclusive(a, maxR) == a <= maxR

\* if (attempt < maxRetries) in the 429 branch
AttemptsRemain(a, maxR) == a < maxR

\* The catch block's last-attempt test, one attempt late.
IsLastAttemptLate(a, maxR) == a = maxR + 1

\* The catch block's last-attempt test, one attempt early.
IsLastAttemptEarly(a, maxR) == a >= maxR - 1

\* if (attempt === maxRetries) break
IsLastAttempt(a, maxR) == a = maxR

\* The backoff without its cap.
BackoffWaitUncapped(a) == Num(Pow2(a - 1) * 1000)

\* Math.min(Math.pow(2, attempt - 1) * 1000, 8000)
BackoffWait(a) == MathMin(Num(Pow2(a - 1) * 1000), Num(8000))

\* lastError = ..., keeping an error already recorded.
CaughtErrorKeepFirst(error, last) ==
    IF last.defined THEN last ELSE ToError(error)

\* lastError = error instanceof Error ? error : new Error(String(error))
CaughtError(error, last) == ToError(error)

\* The error thrown for a non-ok status other than 429.
StatusError(status) ==
    IF status = 404 THEN ErrorObj(MsgNotFound)
    ELSE IF status = 401 THEN ErrorObj(MsgInvalidToken)
    ELSE ErrorObj(MsgStatus(status))

\* ------------------------------------------------------------------------
\* The configuration file (src/utils/config)
\* ------------------------------------------------------------------------
\* A parsed configuration: a JSON object, a JSON array or the JSON null,
\* with its selectedModel property when it has one.
ConfigValue(kind, hasModel, model) ==
    [kind |-> kind, hasModel |-> hasModel, model |-> model]

\* {}
EmptyConfig == ConfigValue("object", FALSE, "")

\* ~/.cascade-cli/config.json: missing, not JSON, or the JSON text of a value.
ConfigFile(state, value) == [state |-> state, value |-> value]

\* The models choose-model offers, and the empty string.
ModelArguments == {"gpt-4.5o", "gpt-4o", ""}

\* The file before the program runs: missing, damaged, written by an
\* earlier run, or edited by hand into an array or null.
ConfigFiles ==
    {ConfigFile("missing", EmptyConfig), ConfigFile("notjson", EmptyConfig),
     ConfigFile("json", EmptyConfig),
     ConfigFile("json", ConfigValue("object", TRUE, "gpt-4o")),
     ConfigFile("json", ConfigValue("array", FALSE, "")),
     ConfigFile("json", ConfigValue("null", FALSE, ""))}

\* readConfig(): JSON.parse of the file, {} when reading or parsing throws.
ReadConfig(file) == IF file.state = "json" THEN file.value ELSE EmptyConfig

\* cfg.selectedModel = model, on a value that can take a property.
AssignSelectedModel(cfg, model) == ConfigValue(cfg.kind, TRUE, model)

\* JSON.stringify(config, null, 2): an array is written as its elements,
\* without its named properties.
JsonStringify(cfg) ==
    IF cfg.kind = "array" THEN ConfigValue("array", FALSE, "") ELSE cfg

\* saveConfig(config): what the file holds afterwards.
SaveConfig(cfg) == ConfigFile("json", JsonStringify(cfg))

\* getSelectedModel(): cfg.selectedModel ?? null; reading a property of
\* null throws.
GetSelectedModel(file) ==
    LET cfg == ReadConfig(file)
    IN  IF cfg.kind = "null" THEN [kind |-> "thrown", v |-> ""]
        ELSE IF cfg.hasModel THEN [kind |-> "string", v |-> cfg.model]
        ELSE [kind |-> "null", v |-> ""]

\* (await getSelectedModel()) ?? 'gpt-4.5o'
ModelToUse(got) == IF got.kind = "null" THEN "gpt-4.5o" ELSE got.v

\* ------------------------------------------------------------------------
\* State
\* ------------------------------------------------------------------------
VARIABLES
    pc,          \* where the call is
    maxRetries,  \* the maxRetries argument
    spinner,     \* whether a spinner argument was passed
    attempt,     \* the loop variable
    requests,    \* number of fetch() calls issued
    response,    \* outcome of the latest fetch()
    retryAfter,  \* the retryAfter local of the latest 429
    error,       \* the value caught by the latest catch
    errorAt,     \* the attempt whose catch set lastError
    lastError,   \* the lastError local
    waits,       \* the setTimeout delays so far, in order
    spinnerText, \* what spinner.text was last set to
    consoleLogs, \* number of console.log calls
    result,      \* the value returned
    raised,      \* the value thrown to the caller
    script       \* the outcomes the server is set to give to the first
                 \* requests, in order; beyond its end the server is free

\* The state of one run of a CLI command (frames, frame, to-react).
VARIABLES
    cmd,         \* the command that runs
    cpc,         \* where the command's action handler is
    token,       \* process.env.FIGMA_TOKEN
    url,         \* the <figma-url> argument of to-react
    configFile,  \* the content of ~/.cascade-cli/config.json
    exitCode,    \* the status the process ended with
    stderr,      \* what console.error reported, in order
    prompts,     \* the answers given to the interactive prompts
    aiModel,     \* the model name passed to the AI call
    aiPc,        \* where generateReactComponentWithAI is
    aiRequests,  \* number of fetch() calls to the AI proxy
    aiResponse,  \* the AI proxy's response
    aiResult,    \* the source text generateReactComponentWithAI returned
    aiRaised,    \* the message of the error it threw
    dirs,        \* directories created by fs.mkdir
    files        \* files written by fs.writeFile

\* The state of one use of the compiler (src/utils/figmaToReact).
VARIABLES
    cstage,      \* which function was applied
    cin,         \* its arguments
    cout         \* what it returned

\* The state of the calls of src/utils/config.
VARIABLES
    cfgPc,       \* where the call of setSelectedModel or getSelectedModel is
    cfgCall,     \* its argument and its cfg local
    selected,    \* what getSelectedModel last gave: a string, null or an error
    lastSet      \* the argument of the latest setSelectedModel that resolved

cmdVars == <<cmd, cpc, token, url, configFile, exitCode, stderr, prompts,
             aiModel, aiPc, aiRequests, aiResponse, aiResult, aiRaised,
             dirs, files>>

compVars == <<cstage, cin, cout>>

confVars == <<cfgPc, cfgCall, selected, lastSet>>

\* The state of one call of figmaApiRequest.
retryVars == <<pc, maxRetries, spinner, attempt, requests, response,
               retryAfter, error, errorAt, lastError, waits, spinnerText,
               consoleLogs, result, raised>>

\* What figmaApiRequest never writes.
outside == <<script, cmdVars, compVars, confVars>>

vars == <<retryVars, outside>>

\* The state before figmaApiRequest is called.
InitRetry ==
    /\ pc = "idle"
    /\ maxRetries = 3
    /\ spinner = FALSE
    /\ attempt = 0
    /\ requests = 0
    /\ response = NoResponse
    /\ retryAfter = Num(0)
    /\ error = NoError
    /\ errorAt = 0
    /\ lastError = Undefined
    /\ waits = <<>>
    /\ spinnerText = "initial"
    /\ consoleLogs = 0
    /\ result = "none"
    /\ raised = Undefined

\* No command runs.
InitCmdIdle ==
    /\ cmd = "none"
    /\ cpc = "none"
    /\ token = [set |-> FALSE, val |-> ""]
    /\ url = [wellFormed |-> FALSE, path |-> "", key |-> "", hasNodeId |-> FALSE, nodeId |-> ""]
    /\ configFile = ConfigFile("missing", EmptyConfig)
    /\ exitCode = 0
    /\ stderr = <<>>
    /\ prompts = [framework |-> "", componentName |-> <<>>, additionalPrompt |-> "",
                  outputPathInput |-> "", output |-> ""]
    /\ aiModel = ""
    /\ aiPc = "idle"
    /\ aiRequests = 0
    /\ aiResponse = [kind |-> "none", status |-> 0, statusText |-> "",
                     data |-> [json |-> FALSE, isNull |-> FALSE, hasChoices |-> FALSE,
                               choices |-> <<>>, message |-> <<>>, activityId |-> <<>>]]
    /\ aiResult = <<>>
    /\ aiRaised = <<>>
    /\ dirs = {}
    /\ files = {}

\* No call of src/utils/config is under way or has been made.
InitConfIdle ==
    /\ cfgPc = "idle"
    /\ cfgCall = [arg |-> "", cfg |-> EmptyConfig]
    /\ selected = [kind |-> "none", v |-> ""]
    /\ lastSet = [has |-> FALSE, v |-> ""]

\* The compiler is not used.
InitCompIdle ==
    /\ cstage = "none"
    /\ cin = "none"
    /\ cout = "none"

\* A call against a server that may answer anything.
Init ==
    /\ InitRetry
    /\ script = <<>>
    /\ InitCmdIdle
    /\ InitCompIdle
    /\ InitConfIdle

\* The outcome the server is set to give to request n, if any.
Scripted(n) == n >= 1 /\ n <= Len(script)

\* figmaApiRequest(url, token, spinner?, maxRetries = 3) is entered with
\* maxRetries = m and with a spinner or not: let lastError; attempt = 1.
Enter(m, s) ==
    /\ pc = "idle"
    /\ maxRetries' = m
    /\ spinner' = s
    /\ attempt' = 1
    /\ pc' = "loop"
    /\ UNCHANGED <<requests, response, retryAfter, error, errorAt, lastError,
                   waits, spinnerText, consoleLogs, result, raised>>

\* A call from outside the commands.
CallWith(m, s) == Enter(m, s) /\ UNCHANGED outside

\* A call with any maxRetries.
Call == \E m \in (0 - 1)..MaxRetriesBound, s \in BOOLEAN : CallWith(m, s)

\* The loop condition holds: a new iteration starts with fresh block-scoped
\* locals (response, retryAfter, error), the spinner is updated and fetch()
\* is called.
Attempt ==
    /\ pc = "loop"
    /\ LoopCondition(attempt, maxRetries)
    /\ spinnerText' = IF spinner /\ attempt > 1 THEN "retrying" ELSE spinnerText
    /\ requests' = requests + 1
    /\ response' = NoResponse
    /\ retryAfter' = Num(0)
    /\ error' = NoError
    /\ pc' = "fetching"
    /\ UNCHANGED <<maxRetries, spinner, attempt, errorAt, lastError, waits,
                   consoleLogs, result, raised>>
    /\ UNCHANGED outside

\* The loop condition fails: control reaches throw lastError.
LoopExit ==
    /\ pc = "loop"
    /\ ~LoopCondition(attempt, maxRetries)
    /\ raised' = lastError
    /\ pc' = "thrown"
    /\ UNCHANGED <<maxRetries, spinner, attempt, requests, response,
                   retryAfter, error, errorAt, lastError, waits, spinnerText,
                   consoleLogs, result>>
    /\ UNCHANGED outside

\* await fetch(...) resolves with a response.
FetchResolves ==
    /\ pc = "fetching"
    /\ \E r \in Responses :
        /\ Scripted(requests) => script[requests].resp = r
        /\ response' = r
    /\ pc' = "classify"
    /\ UNCHANGED <<maxRetries, spinner, attempt, requests, retryAfter, error,
                   errorAt, lastError, waits, spinnerText, consoleLogs,
                   result, raised>>
    /\ UNCHANGED outside

\* await fetch(...) rejects: control enters the catch block.
FetchRejects ==
    /\ pc = "fetching"
    /\ \E e \in FetchRejections :
        /\ Scripted(requests) =>
            (script[requests].resp = Rejected /\ script[requests].err = e)
        /\ error' = e
    /\ response' = Rejected
    /\ pc' = "catch"
    /\ UNCHANGED <<maxRetries, spinner, attempt, requests, retryAfter,
                   errorAt, lastError, waits, spinnerText, consoleLogs,
                   result, raised>>
    /\ UNCHANGED outside

\* if (response.ok) return await response.json(): the body is read.
ReadBody ==
    /\ pc = "classify"
    /\ ResponseOk(response.status)
    /\ pc' = "parsing"
    /\ UNCHANGED <<maxRetries, spinner, attempt, requests, response,
                   retryAfter, error, errorAt, lastError, waits, spinnerText,
                   consoleLogs, result, raised>>
    /\ UNCHANGED outside

\* response.json() resolves: the parsed body is returned.
JsonResolves ==
    /\ pc = "parsing"
    /\ response.body \in JsonBodies
    /\ result' = response.body
    /\ pc' = "returned"
    /\ UNCHANGED <<maxRetries, spinner, attempt, requests, response,
                   retryAfter, error, errorAt, lastError, waits, spinnerText,
                   consoleLogs, raised>>
    /\ UNCHANGED outside

\* response.json() rejects inside the try block: control enters the catch.
JsonRejects ==
    /\ pc = "parsing"
    /\ response.body \notin JsonBodies
    /\ error' = JsonRejection
    /\ pc' = "catch"
    /\ UNCHANGED <<maxRetries, spinner, attempt, requests, response,
                   retryAfter, errorAt, lastError, waits, spinnerText,
                   consoleLogs, result, raised>>
    /\ UNCHANGED outside

\* Status 429 with attempts remaining: report, then sleep waitTime.
RateLimitSleep ==
    /\ pc = "classify"
    /\ ~ResponseOk(response.status)
    /\ response.status = 429
    /\ AttemptsRemain(attempt, maxRetries)
    /\ retryAfter' = RetryAfterOf(response.hdr)
    /\ waits' = Append(waits, [kind |-> "rate",
                               ms |-> RateLimitWait(attempt, RetryAfterOf(response.hdr))])
    /\ spinnerText' = IF spinner THEN "ratelimit" ELSE spinnerText
    /\ consoleLogs' = IF spinner THEN consoleLogs ELSE consoleLogs + 1
    /\ pc' = "sleepRate"
    /\ UNCHANGED <<maxRetries, spinner, attempt, requests, response, error,
                   errorAt, lastError, result, raised>>
    /\ UNCHANGED outside

\* Status 429 on the last attempt: the rate-limit error is thrown into the
\* catch block.
RateLimitThrow ==
    /\ pc = "classify"
    /\ ~ResponseOk(response.status)
    /\ response.status = 429
    /\ ~AttemptsRemain(attempt, maxRetries)
    /\ retryAfter' = RetryAfterOf(response.hdr)
    /\ error' = ErrorObj(MsgRateLimit(maxRetries))
    /\ pc' = "catch"
    /\ UNCHANGED <<maxRetries, spinner, attempt, requests, response, errorAt,
                   lastError, waits, spinnerText, consoleLogs, result, raised>>
    /\ UNCHANGED outside

\* Any other status: its error is thrown into the catch block.
StatusThrow ==
    /\ pc = "classify"
    /\ ~ResponseOk(response.status)
    /\ response.status # 429
    /\ error' = StatusError(response.status)
    /\ pc' = "catch"
    /\ UNCHANGED <<maxRetries, spinner, attempt, requests, response,
                   retryAfter, errorAt, lastError, waits, spinnerText,
                   consoleLogs, result, raised>>
    /\ UNCHANGED outside

\* catch: lastError is set; on the last attempt the loop is left and
\* lastError is thrown.
CatchLastAttempt ==
    /\ pc = "catch"
    /\ IsLastAttempt(attempt, maxRetries)
    /\ lastError' = CaughtError(error, lastError)
    /\ errorAt' = attempt
    /\ raised' = CaughtError(error, lastError)
    /\ pc' = "thrown"
    /\ UNCHANGED <<maxRetries, spinner, attempt, requests, response,
                   retryAfter, error, waits, spinnerText, consoleLogs, result>>
    /\ UNCHANGED outside

\* catch: lastError is set; a terminal message leaves the loop and
\* lastError is thrown.
CatchTerminal ==
    /\ pc = "catch"
    /\ ~IsLastAttempt(attempt, maxRetries)
    /\ IsTerminalError(error)
    /\ lastError' = CaughtError(error, lastError)
    /\ errorAt' = attempt
    /\ raised' = CaughtError(error, lastError)
    /\ pc' = "thrown"
    /\ UNCHANGED <<maxRetries, spinner, attempt, requests, response,
                   retryAfter, error, waits, spinnerText, consoleLogs, result>>
    /\ UNCHANGED outside

\* catch: lastError is set; otherwise report and sleep the backoff.
CatchBackoff ==
    /\ pc = "catch"
    /\ ~IsLastAttempt(attempt, maxRetries)
    /\ ~IsTerminalError(error)
    /\ lastError' = CaughtError(error, lastError)
    /\ errorAt' = attempt
    /\ waits' = Append(waits, [kind |-> "net", ms |-> BackoffWait(attempt)])
    /\ spinnerText' = IF spinner THEN "network" ELSE spinnerText
    /\ consoleLogs' = IF spinner THEN consoleLogs ELSE consoleLogs + 1
    /\ pc' = "sleepNet"
    /\ UNCHANGED <<maxRetries, spinner, attempt, requests, response,
                   retryAfter, error, result, raised>>
    /\ UNCHANGED outside

\* The rate-limit sleep ends: continue, attempt++.
RateLimitWake ==
    /\ pc = "sleepRate"
    /\ attempt' = NextAttempt(attempt)
    /\ pc' = "loop"
    /\ UNCHANGED <<maxRetries, spinner, requests, response, retryAfter, error,
                   errorAt, lastError, waits, spinnerText, consoleLogs,
                   result, raised>>
    /\ UNCHANGED outside

\* The backoff sleep ends: end of the loop body, attempt++.
BackoffWake ==
    /\ pc = "sleepNet"
    /\ attempt' = NextAttempt(attempt)
    /\ pc' = "loop"
    /\ UNCHANGED <<maxRetries, spinner, requests, response, retryAfter, error,
                   errorAt, lastError, waits, spinnerText, consoleLogs,
                   result, raised>>
    /\ UNCHANGED outside

Next ==
    \/ Call
    \/ Attempt
    \/ LoopExit
    \/ FetchResolves
    \/ FetchRejects
    \/ ReadBody
    \/ JsonResolves
    \/ JsonRejects
    \/ RateLimitSleep
    \/ RateLimitThrow
    \/ StatusThrow
    \/ CatchLastAttempt
    \/ CatchTerminal
    \/ CatchBackoff
    \/ RateLimitWake
    \/ BackoffWake

Spec == Init /\ [][Next]_vars

\* ------------------------------------------------------------------------
\* A call against a server whose first answers are fixed in advance
\* ------------------------------------------------------------------------
\* Longest sequence of answers fixed in advance.
MaxScriptLen == 3

\* fetch() resolves with r.
Resolves(r) == [resp |-> r, err |-> NoError]

\* fetch() rejects with e.
Rejects(e) == [resp |-> Rejected, err |-> e]

ResponseOf(status, hdr, body) ==
    [kind |-> "response", status |-> status, hdr |-> hdr, body |-> body]

\* The answers a script is made of.
ScriptOutcomes ==
    {Resolves(ResponseOf(429, Header(<<"2">>), "doc1")),
     Resolves(ResponseOf(500, NullHeader, "doc1")),
     Resolves(ResponseOf(401, NullHeader, "doc1")),
     Resolves(ResponseOf(200, NullHeader, "doc1")),
     Resolves(ResponseOf(200, NullHeader, "notjson")),
     Rejects(ErrorObj(<<"request", "to", "url", "failed", ",", "reason", ":", "ECONNRESET">>))}

Scripts == UNION {[1..n -> ScriptOutcomes] : n \in 1..MaxScriptLen}

InitScripted ==
    /\ InitRetry
    /\ script \in Scripts
    /\ InitCmdIdle
    /\ InitCompIdle
    /\ InitConfIdle

\* A call that makes no more requests than there are answers fixed.
CallScripted == \E m \in (0 - 1)..Len(script), s \in BOOLEAN : CallWith(m, s)

\* The steps of figmaApiRequest once it is entered.
AttemptSteps ==
    \/ Attempt
    \/ FetchResolves
    \/ FetchRejects
    \/ ReadBody
    \/ JsonResolves
    \/ JsonRejects
    \/ RateLimitSleep
    \/ RateLimitThrow
    \/ StatusThrow
    \/ CatchLastAttempt
    \/ CatchTerminal
    \/ CatchBackoff
    \/ RateLimitWake
    \/ BackoffWake

\* The steps of a call that is under way.
RetrySteps == LoopExit \/ AttemptSteps

NextScripted ==
    \/ CallScripted
    \/ RetrySteps

SpecScripted == InitScripted /\ [][NextScripted]_vars

\* ------------------------------------------------------------------------
\* The commands frames, frame and to-react (src/src/commands/figma.ts:78-345)
\* and generateReactComponentWithAI (src/utils/figmaToReact)
\* ------------------------------------------------------------------------
Commands == {"frames", "frame", "to-react"}

\* maxRetries: number = 3, the value every command runs figmaApiRequest with.
DefaultMaxRetries == 3

\* process.env.FIGMA_TOKEN: unset, set to the empty string, set to a token.
Tokens ==
    {[set |-> FALSE, val |-> ""], [set |-> TRUE, val |-> ""],
     [set |-> TRUE, val |-> "figd_token"]}

\* The token test, taking only an unset variable as missing.
TokenMissingOnlyUnset(t) == ~t.set

\* !figmaToken
TokenMissing(t) == ~t.set \/ t.val = ""

\* <figma-url> arguments: a design URL with a node id, a prototype URL (no
\* file key in the path), a file URL without a node id, a design URL with
\* an empty one, and text that is not a URL.
Urls ==
    {[wellFormed |-> TRUE, path |-> "design", key |-> "AbC123", hasNodeId |-> TRUE, nodeId |-> "7-16"],
     [wellFormed |-> TRUE, path |-> "proto", key |-> "AbC123", hasNodeId |-> TRUE, nodeId |-> "7-16"],
     [wellFormed |-> TRUE, path |-> "file", key |-> "AbC123", hasNodeId |-> FALSE, nodeId |-> ""],
     [wellFormed |-> TRUE, path |-> "design", key |-> "AbC123", hasNodeId |-> TRUE, nodeId |-> ""],
     [wellFormed |-> FALSE, path |-> "", key |-> "", hasNodeId |-> FALSE, nodeId |-> ""]}

\* parseFigmaUrl(url): the file key and the node id, each null when missing.
ParseFigmaUrl(u) ==
    IF ~u.wellFormed
    THEN [hasFileKey |-> FALSE, fileKey |-> "", hasNodeId |-> FALSE, nodeId |-> ""]
    ELSE [hasFileKey |-> u.path \in {"design", "file"} /\ u.key # "",
          fileKey    |-> IF u.path \in {"design", "file"} THEN u.key ELSE "",
          hasNodeId  |-> u.hasNodeId,
          nodeId     |-> u.nodeId]

\* !fileKey || !nodeId
UrlRejected(u) ==
    LET parsed == ParseFigmaUrl(u)
    IN  \/ ~parsed.hasFileKey \/ parsed.fileKey = ""
        \/ ~parsed.hasNodeId \/ parsed.nodeId = ""

\* data.nodes[apiFrameId]?.document is there; data.document has frames.
FrameIn(body) == body = "doc1"

MsgTokenNotSet ==
    <<"Error:", "FIGMA_TOKEN", "environment", "variable", "is", "not", "set", ".">>

MsgInvalidUrl ==
    <<"Error:", "Invalid", "Figma", "URL", ".">>

MsgFrameNotFound ==
    <<"Error:", "Frame", "not", "found", "in", "the", "specified", "file", ".">>

\* console.error('Error:', error.message)
MsgCaught(msg) == <<"Error:">> \o msg

\* ---- the AI proxy's answers ----
\* A parsed body: json tells whether the body is JSON, isNull whether it is
\* the JSON null; choices holds, for each element, whether it has a message
\* and whether the message has a content; message and activityId are the
\* fields of an error body, empty when missing.
AiDataOf(json, isNull, hasChoices, choices, message, activityId) ==
    [json |-> json, isNull |-> isNull, hasChoices |-> hasChoices,
     choices |-> choices, message |-> message, activityId |-> activityId]

\* A body that is not JSON.
AiNotJson == AiDataOf(FALSE, FALSE, FALSE, <<>>, <<>>, <<>>)

\* The token standing for three backticks.
Fence == "[fence]"

AiResponseOf(status, statusText, data) ==
    [kind |-> "response", status |-> status, statusText |-> statusText, data |-> data]

\* What the proxy can answer: 200 with a body that is not JSON, is null,
\* lacks choices, has no element, no message or no content, or carries a
\* content that is empty, plain, fenced, padded or fenced in another
\* language; 500 with and without a message and an activity id; 429; 404.
AiResponses ==
    LET choice(hasMessage, hasContent, content) ==
            [hasMessage |-> hasMessage, hasContent |-> hasContent, content |-> content]
        completion(content) ==
            AiDataOf(TRUE, FALSE, TRUE, <<choice(TRUE, TRUE, content)>>, <<>>, <<>>)
        plain  == <<"export", " ", "const", " ", "Card">>
        fenced == <<"Here", " ", "it", " ", "is", ":", "\n", Fence, "tsx", "\n",
                    "export", " ", "const", " ", "Card", "\n", Fence, "\n", "Enjoy">>
        padded == <<"\n", " ", "export", " ", "const", " ", "Card", " ", "\n">>
        other  == <<Fence, "python", "\n", "print", "\n", Fence>>
        okBodies ==
            {AiNotJson,
             AiDataOf(TRUE, TRUE, FALSE, <<>>, <<>>, <<>>),
             AiDataOf(TRUE, FALSE, FALSE, <<>>, <<>>, <<>>),
             AiDataOf(TRUE, FALSE, TRUE, <<>>, <<>>, <<>>),
             AiDataOf(TRUE, FALSE, TRUE, <<choice(FALSE, FALSE, <<>>)>>, <<>>, <<>>),
             AiDataOf(TRUE, FALSE, TRUE, <<choice(TRUE, FALSE, <<>>)>>, <<>>, <<>>),
             completion(<<>>), completion(plain), completion(fenced),
             completion(padded), completion(other)}
        errorBodies ==
            {AiNotJson,
             AiDataOf(TRUE, FALSE, FALSE, <<>>, <<>>, <<>>),
             AiDataOf(TRUE, FALSE, FALSE, <<>>, <<"quota", " ", "exceeded">>, <<>>),
             AiDataOf(TRUE, FALSE, FALSE, <<>>, <<"quota", " ", "exceeded">>, <<"a", "1">>)}
    IN  {AiResponseOf(200, "OK", d) : d \in okBodies}
        \cup {AiResponseOf(500, "Internal Server Error", d) : d \in errorBodies}
        \cup {AiResponseOf(429, "Too Many Requests", AiNotJson),
              AiResponseOf(404, "Not Found", AiNotJson)}

\* What fetch() to the proxy rejects with.
AiFetchRejections ==
    {<<"request", "to", "proxy", "failed", ",", "reason", ":", "ECONNREFUSED">>}

\* The catch block of generateReactComponentWithAI.
AiWrap(msg) ==
    <<"Failed", "to", "generate", "component", "with", "AI", ":">> \o msg

\* The proxy's answer counts as ok, with client errors let through.
AiResponseOkBelow500(status) == status < 500

\* response.ok
AiResponseOk(status) == status >= 200 /\ status <= 299

\* The message built for an answer that is not ok: errorData is the parsed
\* body, or {} when the body is not JSON.
UpstreamError(r) ==
    LET first == IF r.data.json /\ r.data.message # <<>>
                 THEN r.data.message
                 ELSE <<"Upstream", "error">> \o NumberToString(r.status)
                      \o <<r.statusText>>
        second == IF r.data.json /\ r.data.activityId # <<>>
                  THEN <<"|", "activityId", ":">> \o r.data.activityId
                  ELSE <<>>
    IN  first \o second

\* !data.choices || !data.choices[0] || !data.choices[0].message
AiShapeInvalid(d) ==
    \/ ~d.hasChoices
    \/ Len(d.choices) = 0
    \/ ~d.choices[1].hasMessage

\* data.choices[0].message.content || ''
AiContent(d) ==
    IF d.choices[1].hasContent THEN d.choices[1].content ELSE <<>>

\* componentCode after the code-block extraction: the first match of
\* /```(?:typescript|tsx|jsx|javascript)?\n([\s\S]*?)\n```/, if any.
ExtractCode(c) ==
    LET \* Where the text inside a fence opened at i starts: after the fence,
        \* an optional language and a line break; 0 when no fence opens at i.
        bodyStart(i) ==
            IF c[i] # Fence THEN 0
            ELSE IF i + 1 <= Len(c) /\ c[i + 1] = "\n" THEN i + 2
            ELSE IF i + 2 <= Len(c)
                    /\ c[i + 1] \in {"typescript", "tsx", "jsx", "javascript"}
                    /\ c[i + 2] = "\n" THEN i + 3
            ELSE 0
        \* The line breaks that close a fence whose text starts at b.
        closes(b) == {j \in b..(Len(c) - 1) : c[j] = "\n" /\ c[j + 1] = Fence}
        matches == {i \in 1..Len(c) : bodyStart(i) # 0 /\ closes(bodyStart(i)) # {}}
        least(S) == CHOOSE x \in S : \A y \in S : x <= y
    IN  IF matches = {} THEN c
        ELSE SubSeq(c, bodyStart(least(matches)),
                    least(closes(bodyStart(least(matches)))) - 1)

RECURSIVE TrimStart(_)
TrimStart(c) ==
    IF c # <<>> /\ c[1] \in {" ", "\n"} THEN TrimStart(Tail(c)) ELSE c

RECURSIVE TrimEnd(_)
TrimEnd(c) ==
    IF c # <<>> /\ c[Len(c)] \in {" ", "\n"}
    THEN TrimEnd(SubSeq(c, 1, Len(c) - 1)) ELSE c

\* componentCode.trim()
Trim(c) == TrimEnd(TrimStart(c))

\* What generateReactComponentWithAI does with a 2xx answer: the source text
\* it returns, or the message of the error it throws.
AiOutcome(d) ==
    IF ~d.json
    THEN [ok |-> FALSE, text |-> AiWrap(<<"invalid", "json", "response", "body">>)]
    ELSE IF d.isNull
    THEN [ok |-> FALSE, text |-> AiWrap(<<"Cannot", "read", "properties", "of", "null">>)]
    ELSE IF AiShapeInvalid(d)
    THEN [ok |-> FALSE, text |-> AiWrap(<<"Invalid", "response", "from", "AI", "model">>)]
    ELSE [ok |-> TRUE, text |-> Trim(ExtractCode(AiContent(d)))]

\* ---- the answers to the prompts ----
\* framework === 'mui-tsx' || framework === 'vanilla-jsx' ? 'tsx' : 'jsx'
Extension(framework) ==
    IF framework = "mui-tsx" \/ framework = "vanilla-jsx" THEN "tsx" ELSE "jsx"

\* options.output ? path.resolve(options.output) : path.resolve(outputPathInput)
OutputPath(p) == IF p.output # "" THEN p.output ELSE p.outputPathInput

PromptAnswers ==
    {[framework |-> f, componentName |-> <<"C", "a", "r", "d">>, additionalPrompt |-> a,
      outputPathInput |-> "src/components/Card." \o Extension(f), output |-> o] :
        f \in {"mui-tsx", "styled-components"}, a \in {"dark mode"},
        o \in {"", "out/Card.tsx"}}

\* path.dirname(outputPath)
DirName(path) == IF path = "out/Card.tsx" THEN "out" ELSE "src/components"

cmdEnv == <<cmd, token, url, configFile>>

aiVars == <<aiPc, aiRequests, aiResponse, aiResult, aiRaised>>

InitCmd ==
    /\ InitRetry
    /\ script = <<>>
    /\ InitCompIdle
    /\ InitConfIdle
    /\ cmd = "none"
    /\ cpc = "none"
    /\ token \in Tokens
    /\ url \in Urls
    /\ configFile \in ConfigFiles
    /\ exitCode = 0
    /\ stderr = <<>>
    /\ prompts = [framework |-> "", componentName |-> <<>>, additionalPrompt |-> "",
                  outputPathInput |-> "", output |-> ""]
    /\ aiModel = ""
    /\ aiPc = "idle"
    /\ aiRequests = 0
    /\ aiResponse = [kind |-> "none", status |-> 0, statusText |-> "", data |-> AiNotJson]
    /\ aiResult = <<>>
    /\ aiRaised = <<>>
    /\ dirs = {}
    /\ files = {}

\* process.exit(1) after reporting msgs on stderr.
ExitWith(msgs) ==
    /\ stderr' = stderr \o msgs
    /\ exitCode' = 1
    /\ cpc' = "exited"

\* The command is started: to-react first parses its URL, the others go to
\* the token check.
Run ==
    /\ cmd = "none"
    /\ \E c \in Commands :
        /\ cmd' = c
        /\ cpc' = IF c = "to-react" THEN "parseUrl" ELSE "tokenCheck"
    /\ UNCHANGED <<token, url, configFile, exitCode, stderr, prompts, aiModel,
                   aiVars, dirs, files>>
    /\ UNCHANGED <<retryVars, script, compVars, confVars>>

\* to-react: the URL gives no file key or no node id.
UrlInvalidExit ==
    /\ cpc = "parseUrl"
    /\ UrlRejected(url)
    /\ ExitWith(<<MsgInvalidUrl>>)
    /\ UNCHANGED <<cmdEnv, prompts, aiModel, aiVars, dirs, files>>
    /\ UNCHANGED <<retryVars, script, compVars, confVars>>

\* to-react: the URL is accepted.
UrlAccepted ==
    /\ cpc = "parseUrl"
    /\ ~UrlRejected(url)
    /\ cpc' = "tokenCheck"
    /\ UNCHANGED <<cmdEnv, exitCode, stderr, prompts, aiModel, aiVars, dirs, files>>
    /\ UNCHANGED <<retryVars, script, compVars, confVars>>

\* if (!figmaToken) { console.error(...); process.exit(1) }
TokenMissingExit ==
    /\ cpc = "tokenCheck"
    /\ TokenMissing(token)
    /\ ExitWith(<<MsgTokenNotSet>>)
    /\ UNCHANGED <<cmdEnv, prompts, aiModel, aiVars, dirs, files>>
    /\ UNCHANGED <<retryVars, script, compVars, confVars>>

\* The spinner is started and figmaApiRequest(url, figmaToken, spinner) is
\* called, with the default maxRetries.
CommandFetch ==
    /\ cpc = "tokenCheck"
    /\ ~TokenMissing(token)
    /\ Enter(DefaultMaxRetries, TRUE)
    /\ cpc' = "fetching"
    /\ UNCHANGED <<cmdEnv, exitCode, stderr, prompts, aiModel, aiVars, dirs, files>>
    /\ UNCHANGED <<script, compVars, confVars>>

\* figmaApiRequest threw: the command's catch block reports and exits.
FetchFailedExit ==
    /\ cpc = "fetching"
    /\ pc = "thrown"
    /\ ExitWith(<<MsgCaught(raised.msg)>>)
    /\ UNCHANGED <<cmdEnv, prompts, aiModel, aiVars, dirs, files>>
    /\ UNCHANGED <<retryVars, script, compVars, confVars>>

\* frames: the frames of the document are listed.
FramesListed ==
    /\ cmd = "frames"
    /\ cpc = "fetching"
    /\ pc = "returned"
    /\ cpc' = "done"
    /\ UNCHANGED <<cmdEnv, exitCode, stderr, prompts, aiModel, aiVars, dirs, files>>
    /\ UNCHANGED <<retryVars, script, compVars, confVars>>

\* frame: the frame's JSON is printed.
FramePrinted ==
    /\ cmd = "frame"
    /\ cpc = "fetching"
    /\ pc = "returned"
    /\ FrameIn(result)
    /\ cpc' = "done"
    /\ UNCHANGED <<cmdEnv, exitCode, stderr, prompts, aiModel, aiVars, dirs, files>>
    /\ UNCHANGED <<retryVars, script, compVars, confVars>>

\* frame: the node is not in the answer.
FrameMissingExit ==
    /\ cmd = "frame"
    /\ cpc = "fetching"
    /\ pc = "returned"
    /\ ~FrameIn(result)
    /\ ExitWith(<<MsgFrameNotFound>>)
    /\ UNCHANGED <<cmdEnv, prompts, aiModel, aiVars, dirs, files>>
    /\ UNCHANGED <<retryVars, script, compVars, confVars>>

\* to-react: the node is not in the answer; spinner.fail and exit.
ToReactFrameMissingExit ==
    /\ cmd = "to-react"
    /\ cpc = "fetching"
    /\ pc = "returned"
    /\ ~FrameIn(result)
    /\ ExitWith(<<>>)
    /\ UNCHANGED <<cmdEnv, prompts, aiModel, aiVars, dirs, files>>
    /\ UNCHANGED <<retryVars, script, compVars, confVars>>

\* to-react: the frame was found, the prompts come next.
ToReactFrameFound ==
    /\ cmd = "to-react"
    /\ cpc = "fetching"
    /\ pc = "returned"
    /\ FrameIn(result)
    /\ cpc' = "prompting"
    /\ UNCHANGED <<cmdEnv, exitCode, stderr, prompts, aiModel, aiVars, dirs, files>>
    /\ UNCHANGED <<retryVars, script, compVars, confVars>>

\* to-react: the prompts are answered, the model is read from the
\* configuration, and generateReactComponentWithAI is called.
PromptsAnswered ==
    /\ cpc = "prompting"
    /\ \E p \in PromptAnswers : prompts' = p
    /\ GetSelectedModel(configFile).kind # "thrown"
    /\ aiModel' = ModelToUse(GetSelectedModel(configFile))
    /\ aiPc' = "start"
    /\ cpc' = "generating"
    /\ UNCHANGED <<cmdEnv, exitCode, stderr, aiRequests, aiResponse, aiResult,
                   aiRaised, dirs, files>>
    /\ UNCHANGED <<retryVars, script, compVars, confVars>>

\* to-react: getSelectedModel throws on a configuration that is null; the
\* outer catch block reports and exits.
ModelLookupFailsExit ==
    /\ cpc = "prompting"
    /\ GetSelectedModel(configFile).kind = "thrown"
    /\ ExitWith(<<MsgCaught(<<"Cannot", "read", "properties", "of", "null">>)>>)
    /\ UNCHANGED <<cmdEnv, prompts, aiModel, aiVars, dirs, files>>
    /\ UNCHANGED <<retryVars, script, compVars, confVars>>

\* to-react: a prompt is aborted; the outer catch block reports and exits.
PromptAbortedExit ==
    /\ cpc = "prompting"
    /\ ExitWith(<<MsgCaught(<<"User", "force", "closed", "the", "prompt">>)>>)
    /\ UNCHANGED <<cmdEnv, prompts, aiModel, aiVars, dirs, files>>
    /\ UNCHANGED <<retryVars, script, compVars, confVars>>

\* generateReactComponentWithAI: the POST to the proxy is issued.
AiFetch ==
    /\ aiPc = "start"
    /\ aiRequests' = aiRequests + 1
    /\ aiPc' = "fetching"
    /\ UNCHANGED <<cmdEnv, cpc, exitCode, stderr, prompts, aiModel, aiResponse,
                   aiResult, aiRaised, dirs, files>>
    /\ UNCHANGED <<retryVars, script, compVars, confVars>>

\* The POST resolves with an answer.
AiFetchResolves ==
    /\ aiPc = "fetching"
    /\ \E r \in AiResponses : aiResponse' = r
    /\ aiPc' = "answered"
    /\ UNCHANGED <<cmdEnv, cpc, exitCode, stderr, prompts, aiModel, aiRequests,
                   aiResult, aiRaised, dirs, files>>
    /\ UNCHANGED <<retryVars, script, compVars, confVars>>

\* The POST rejects: the catch block wraps the error and throws.
AiFetchRejects ==
    /\ aiPc = "fetching"
    /\ \E e \in AiFetchRejections : aiRaised' = AiWrap(e)
    /\ aiResponse' = [kind |-> "rejected", status |-> 0, statusText |-> "", data |-> AiNotJson]
    /\ aiPc' = "thrown"
    /\ UNCHANGED <<cmdEnv, cpc, exitCode, stderr, prompts, aiModel, aiRequests,
                   aiResult, dirs, files>>
    /\ UNCHANGED <<retryVars, script, compVars, confVars>>

\* if (!response.ok): the upstream error is thrown and wrapped.
AiNotOkThrows ==
    /\ aiPc = "answered"
    /\ ~AiResponseOk(aiResponse.status)
    /\ aiRaised' = IF aiResponse.data.json /\ aiResponse.data.isNull
                   THEN AiWrap(<<"Cannot", "read", "properties", "of", "null">>)
                   ELSE AiWrap(UpstreamError(aiResponse))
    /\ aiPc' = "thrown"
    /\ UNCHANGED <<cmdEnv, cpc, exitCode, stderr, prompts, aiModel, aiRequests,
                   aiResponse, aiResult, dirs, files>>
    /\ UNCHANGED <<retryVars, script, compVars, confVars>>

\* The answer is ok and yields the source text.
AiReturns ==
    /\ aiPc = "answered"
    /\ AiResponseOk(aiResponse.status)
    /\ AiOutcome(aiResponse.data).ok
    /\ aiResult' = AiOutcome(aiResponse.data).text
    /\ aiPc' = "returned"
    /\ UNCHANGED <<cmdEnv, cpc, exitCode, stderr, prompts, aiModel, aiRequests,
                   aiResponse, aiRaised, dirs, files>>
    /\ UNCHANGED <<retryVars, script, compVars, confVars>>

\* The answer is ok but cannot be used: an error is thrown and wrapped.
AiOkThrows ==
    /\ aiPc = "answered"
    /\ AiResponseOk(aiResponse.status)
    /\ ~AiOutcome(aiResponse.data).ok
    /\ aiRaised' = AiOutcome(aiResponse.data).text
    /\ aiPc' = "thrown"
    /\ UNCHANGED <<cmdEnv, cpc, exitCode, stderr, prompts, aiModel, aiRequests,
                   aiResponse, aiResult, dirs, files>>
    /\ UNCHANGED <<retryVars, script, compVars, confVars>>

\* to-react: the AI call threw; the inner catch block reports and exits.
GenerationFailedExit ==
    /\ cpc = "generating"
    /\ aiPc = "thrown"
    /\ ExitWith(<<MsgCaught(aiRaised)>>)
    /\ UNCHANGED <<cmdEnv, prompts, aiModel, aiVars, dirs, files>>
    /\ UNCHANGED <<retryVars, script, compVars, confVars>>

\* The directory made while the AI call is still to return.
MakeDirBeforeAnswer ==
    /\ cpc = "generating"
    /\ aiPc # "thrown"
    /\ dirs' = dirs \cup {DirName(OutputPath(prompts))}
    /\ cpc' = "writing"
    /\ UNCHANGED <<cmdEnv, exitCode, stderr, prompts, aiModel, aiVars, files>>
    /\ UNCHANGED <<retryVars, script, compVars, confVars>>

\* to-react: the AI call returned; fs.mkdir(outputDir, {recursive: true}).
MakeDir ==
    /\ cpc = "generating"
    /\ aiPc = "returned"
    /\ dirs' = dirs \cup {DirName(OutputPath(prompts))}
    /\ cpc' = "writing"
    /\ UNCHANGED <<cmdEnv, exitCode, stderr, prompts, aiModel, aiVars, files>>
    /\ UNCHANGED <<retryVars, script, compVars, confVars>>

\* to-react: fs.mkdir rejects; the inner catch block reports and exits.
MakeDirFailsExit ==
    /\ cpc = "generating"
    /\ aiPc = "returned"
    /\ ExitWith(<<MsgCaught(<<"EACCES", ":", "permission", "denied", ",", "mkdir">>)>>)
    /\ UNCHANGED <<cmdEnv, prompts, aiModel, aiVars, dirs, files>>
    /\ UNCHANGED <<retryVars, script, compVars, confVars>>

\* to-react: fs.writeFile(outputPath, componentCode); the command ends.
WriteFile ==
    /\ cpc = "writing"
    /\ files' = files \cup {[path |-> OutputPath(prompts), content |-> aiResult]}
    /\ cpc' = "done"
    /\ UNCHANGED <<cmdEnv, exitCode, stderr, prompts, aiModel, aiVars, dirs>>
    /\ UNCHANGED <<retryVars, script, compVars, confVars>>

\* to-react: fs.writeFile rejects; the inner catch block reports and exits.
WriteFileFailsExit ==
    /\ cpc = "writing"
    /\ ExitWith(<<MsgCaught(<<"EACCES", ":", "permission", "denied", ",", "open">>)>>)
    /\ UNCHANGED <<cmdEnv, prompts, aiModel, aiVars, dirs, files>>
    /\ UNCHANGED <<retryVars, script, compVars, confVars>>

NextCmd ==
    \/ Run
    \/ UrlInvalidExit
    \/ UrlAccepted
    \/ TokenMissingExit
    \/ CommandFetch
    \/ AttemptSteps
    \/ FetchFailedExit
    \/ FramesListed
    \/ FramePrinted
    \/ FrameMissingExit
    \/ ToReactFrameMissingExit
    \/ ToReactFrameFound
    \/ PromptsAnswered
    \/ ModelLookupFailsExit
    \/ PromptAbortedExit
    \/ AiFetch
    \/ AiFetchResolves
    \/ AiFetchRejects
    \/ AiNotOkThrows
    \/ AiReturns
    \/ AiOkThrows
    \/ GenerationFailedExit
    \/ MakeDir
    \/ MakeDirFailsExit
    \/ WriteFile
    \/ WriteFileFailsExit

SpecCmd == InitCmd /\ [][NextCmd]_vars

\* ------------------------------------------------------------------------
\* The compiler: getStyleFromNode (src/utils/figmaToReact)
\* Colour channels, alphas and opacities are fractions, held in thousandths;
\* lengths are whole pixels.
\* ------------------------------------------------------------------------
\* Math.round(c * 255) for a channel c given in thousandths.
Round255(c) == (2 * c * 255 + 1000) \div 2000

RECURSIVE StripTrailingZeros(_)
StripTrailingZeros(s) ==
    IF s # <<>> /\ s[Len(s)] = "0"
    THEN StripTrailingZeros(SubSeq(s, 1, Len(s) - 1))
    ELSE s

\* `${x}` for a non-negative number x given in thousandths: 500 is "0.5",
\* 1000 is "1", 250 is "0.25".
FractionToString(x) ==
    IF x % 1000 = 0 THEN NumberToString(x \div 1000)
    ELSE NumberToString(x \div 1000) \o <<".">>
         \o StripTrailingZeros(<<DigitChars[((x % 1000) \div 100) + 1],
                                 DigitChars[((x \div 10) % 10) + 1],
                                 DigitChars[(x % 10) + 1]>>)

\* `${n}px`
Px(n) == NumberToString(n) \o <<"px">>

ColorOf(r, g, b, a) == [r |-> r, g |-> g, b |-> b, a |-> a]

\* rgbaToString(color)
RgbaToString(color) ==
    LET r == NumberToString(Round255(color.r))
        g == NumberToString(Round255(color.g))
        b == NumberToString(Round255(color.b))
    IN  IF color.a < 1000
        THEN <<"rgba(">> \o r \o <<",", " ">> \o g \o <<",", " ">> \o b
             \o <<",", " ">> \o FractionToString(color.a) \o <<")">>
        ELSE <<"rgb(">> \o r \o <<",", " ">> \o g \o <<",", " ">> \o b \o <<")">>

\* An optional field: has is FALSE when the field is undefined.
Some(v) == [has |-> TRUE, v |-> v]

NoNumber == [has |-> FALSE, v |-> 0]

NoString == [has |-> FALSE, v |-> ""]

NoColor == [has |-> FALSE, v |-> ColorOf(0, 0, 0, 0)]

NoList == [has |-> FALSE, v |-> <<>>]

\* A paint of fills or strokes; visible is "absent", "true" or "false".
PaintOf(visible, type, hasColor, color, opacity) ==
    [visible |-> visible, type |-> type, hasColor |-> hasColor, color |-> color,
     opacity |-> opacity]

\* node.style of a text node; 0 and "" stand for a value that is missing or
\* falsy, which the code treats alike.
TextStyleOf(fontSize, fontFamily, fontWeight, letterSpacing, lineHeightPx, textAlignHorizontal) ==
    [fontSize |-> fontSize, fontFamily |-> fontFamily, fontWeight |-> fontWeight,
     letterSpacing |-> letterSpacing, lineHeightPx |-> lineHeightPx,
     textAlignHorizontal |-> textAlignHorizontal]

NoTextStyle == [has |-> FALSE, v |-> TextStyleOf(0, "", 0, 0, 0, "")]

\* A FigmaNode with every optional field undefined.
BareNode(name, type) ==
    [name |-> name, type |-> type,
     absoluteBoundingBox |-> [has |-> FALSE, width |-> 0, height |-> 0],
     backgroundColor |-> NoColor, fills |-> NoList, strokes |-> NoList,
     cornerRadius |-> NoNumber, children |-> NoList, characters |-> NoList,
     style |-> NoTextStyle, layoutMode |-> NoString,
     primaryAxisAlignItems |-> NoString, counterAxisAlignItems |-> NoString,
     paddingLeft |-> NoNumber, paddingRight |-> NoNumber, paddingTop |-> NoNumber,
     paddingBottom |-> NoNumber, itemSpacing |-> NoNumber, layoutGrow |-> NoNumber,
     opacity |-> NoNumber]

\* One property of a style declaration; quoted tells a string from a number.
Entry(key, quoted, text) == <<[key |-> key, quoted |-> quoted, text |-> text]>>

\* The paint test, without the look at visible.
PaintAppliesIgnoringVisible(paint) == paint.type = "SOLID" /\ paint.hasColor

\* fill.visible !== false && fill.type === 'SOLID' && fill.color
PaintApplies(paint) ==
    paint.visible # "false" /\ paint.type = "SOLID" /\ paint.hasColor

\* The fill's colour, keeping its own alpha when the fill has no opacity.
FillColorOwnAlpha(fill) ==
    [fill.color EXCEPT !.a = IF fill.opacity.has THEN fill.opacity.v ELSE fill.color.a]

\* fill.opacity !== undefined ? {...fill.color, a: fill.opacity}
\*                            : {...fill.color, a: 1}
FillColor(fill) ==
    [fill.color EXCEPT !.a = IF fill.opacity.has THEN fill.opacity.v ELSE 1000]

\* node.fills && Array.isArray(node.fills) && node.fills.length > 0
NonEmptyList(list) == list.has /\ Len(list.v) > 0

\* backgroundColor: the flat colour, overwritten by the first fill.
BackgroundEntries(node) ==
    IF NonEmptyList(node.fills) /\ PaintApplies(node.fills.v[1])
    THEN Entry("backgroundColor", TRUE, RgbaToString(FillColor(node.fills.v[1])))
    ELSE IF node.backgroundColor.has
    THEN Entry("backgroundColor", TRUE, RgbaToString(node.backgroundColor.v))
    ELSE <<>>

\* The opacity test, taking full opacity too.
OpacityAppliesAtOne(opacity) == opacity.has /\ opacity.v <= 1000

\* node.opacity !== undefined && node.opacity < 1
OpacityApplies(opacity) == opacity.has /\ opacity.v < 1000

\* A string field is truthy.
TruthyString(field) == field.has /\ field.v # ""

\* The test of a padding or gap, taking every value that is present.
TruthyNumberWhenPresent(field) == field.has

\* if (node.paddingLeft): the value is there and is not 0.
TruthyNumber(field) == field.has /\ field.v # 0

\* alignMap[node.primaryAxisAlignItems] || 'flex-start'
JustifyContentOf(align) ==
    CASE align = "MIN" -> "flex-start"
      [] align = "CENTER" -> "center"
      [] align = "MAX" -> "flex-end"
      [] align = "SPACE_BETWEEN" -> "space-between"
      [] OTHER -> "flex-start"

\* alignMap[node.counterAxisAlignItems] || 'flex-start'
AlignItemsOf(align) ==
    CASE align = "MIN" -> "flex-start"
      [] align = "CENTER" -> "center"
      [] align = "MAX" -> "flex-end"
      [] OTHER -> "flex-start"

\* if (node.layoutMode) { ... }
LayoutEntries(node) ==
    LET \* `${value}px` under key when the value is truthy.
        px(key, field) ==
            IF TruthyNumber(field) THEN Entry(key, TRUE, Px(field.v)) ELSE <<>>
    IN  IF TruthyString(node.layoutMode)
        THEN Entry("display", TRUE, <<"flex">>)
             \o Entry("flexDirection", TRUE,
                      IF node.layoutMode.v = "HORIZONTAL" THEN <<"row">> ELSE <<"column">>)
             \o (IF TruthyString(node.primaryAxisAlignItems)
                 THEN Entry("justifyContent", TRUE,
                            <<JustifyContentOf(node.primaryAxisAlignItems.v)>>)
                 ELSE <<>>)
             \o (IF TruthyString(node.counterAxisAlignItems)
                 THEN Entry("alignItems", TRUE,
                            <<AlignItemsOf(node.counterAxisAlignItems.v)>>)
                 ELSE <<>>)
             \o px("paddingLeft", node.paddingLeft)
             \o px("paddingRight", node.paddingRight)
             \o px("paddingTop", node.paddingTop)
             \o px("paddingBottom", node.paddingBottom)
             \o px("gap", node.itemSpacing)
        ELSE <<>>

\* alignMap[node.style.textAlignHorizontal] || 'left'
TextAlignOf(align) ==
    CASE align = "LEFT" -> "left"
      [] align = "CENTER" -> "center"
      [] align = "RIGHT" -> "right"
      [] align = "JUSTIFIED" -> "justify"
      [] OTHER -> "left"

\* if (node.type === 'TEXT' && node.style) { ... }
TextEntries(node) ==
    IF node.type = "TEXT" /\ node.style.has
    THEN LET st == node.style.v
         IN  (IF st.fontSize # 0 THEN Entry("fontSize", TRUE, Px(st.fontSize)) ELSE <<>>)
             \o (IF st.fontFamily # "" THEN Entry("fontFamily", TRUE, <<st.fontFamily>>) ELSE <<>>)
             \o (IF st.fontWeight # 0
                 THEN Entry("fontWeight", FALSE, NumberToString(st.fontWeight)) ELSE <<>>)
             \o (IF st.letterSpacing # 0
                 THEN Entry("letterSpacing", TRUE, Px(st.letterSpacing)) ELSE <<>>)
             \o (IF st.lineHeightPx # 0
                 THEN Entry("lineHeight", TRUE, Px(st.lineHeightPx)) ELSE <<>>)
             \o (IF st.textAlignHorizontal # ""
                 THEN Entry("textAlign", TRUE, <<TextAlignOf(st.textAlignHorizontal)>>)
                 ELSE <<>>)
    ELSE <<>>

\* getStyleFromNode(node): the declaration, its properties in the order the
\* code sets them.
GetStyleFromNode(node) ==
    LET \* if (node.absoluteBoundingBox)
        box ==
            IF node.absoluteBoundingBox.has
            THEN Entry("width", TRUE, Px(node.absoluteBoundingBox.width))
                 \o Entry("height", TRUE, Px(node.absoluteBoundingBox.height))
            ELSE <<>>
        \* if (node.cornerRadius)
        radius ==
            IF node.cornerRadius.has /\ node.cornerRadius.v # 0
            THEN Entry("borderRadius", TRUE, Px(node.cornerRadius.v))
            ELSE <<>>
        \* border, from the first stroke.
        border ==
            IF NonEmptyList(node.strokes) /\ PaintApplies(node.strokes.v[1])
            THEN Entry("border", TRUE,
                       <<"1px", " ", "solid", " ">>
                       \o RgbaToString([node.strokes.v[1].color EXCEPT !.a = 1000]))
            ELSE <<>>
        opacity ==
            IF OpacityApplies(node.opacity)
            THEN Entry("opacity", FALSE, FractionToString(node.opacity.v))
            ELSE <<>>
        \* node.layoutGrow !== undefined && node.layoutGrow > 0
        grow ==
            IF node.layoutGrow.has /\ node.layoutGrow.v > 0
            THEN Entry("flexGrow", FALSE, NumberToString(node.layoutGrow.v))
            ELSE <<>>
    IN  box \o BackgroundEntries(node) \o radius \o border \o opacity
        \o LayoutEntries(node) \o grow \o TextEntries(node)

\* ------------------------------------------------------------------------
\* The compiler: generateJSXFromNode, sanitizeComponentName,
\* generateReactComponent and the four templates (src/utils/figmaToReact)
\* Text is a sequence of lines; a line is its leading spaces and its tokens.
\* ------------------------------------------------------------------------
Line(indent, text) == [indent |-> indent, text |-> text]

RECURSIVE JsonEscape(_)
\* The inside of JSON.stringify(s) for a string s: quotes, backslashes and
\* line breaks are escaped.
JsonEscape(s) ==
    IF s = <<>> THEN <<>>
    ELSE (CASE s[1] = "\"" -> <<"\\", "\"">>
            [] s[1] = "\\" -> <<"\\", "\\">>
            [] s[1] = "\n" -> <<"\\", "n">>
            [] OTHER -> <<s[1]>>) \o JsonEscape(Tail(s))

\* JSON.stringify(s) for a string s.
JsonString(s) == <<"\"">> \o JsonEscape(s) \o <<"\"">>

\* The lines of JSON.stringify(style, null, 2).
JsonLines(style) ==
    IF style = <<>> THEN <<Line(0, <<"{}">>)>>
    ELSE <<Line(0, <<"{">>)>>
         \o [i \in 1..Len(style) |->
                Line(2, JsonString(<<style[i].key>>) \o <<":", " ">>
                        \o (IF style[i].quoted THEN JsonString(style[i].text)
                            ELSE style[i].text)
                        \o (IF i < Len(style) THEN <<",">> ELSE <<>>))]
         \o <<Line(0, <<"}">>)>>

\* '  '.repeat(depth): the number of spaces.
Indent(depth) == 2 * depth

\* styleString: every line but the first is moved right by depth + 1 levels.
StyleString(style, depth) ==
    LET lines == JsonLines(style)
    IN  [i \in 1..Len(lines) |->
            IF i = 1 THEN lines[i]
            ELSE Line(Indent(depth + 1) + lines[i].indent, lines[i].text)]

\* `${indent}<div style={${styleString}}` followed by closing, as lines.
OpenTag(node, depth, closing) ==
    LET ss == StyleString(GetStyleFromNode(node), depth)
        n  == Len(ss)
    IN  [i \in 1..n |->
            Line(IF i = 1 THEN Indent(depth) ELSE ss[i].indent,
                 (IF i = 1 THEN <<"<div", " ", "style={">> ELSE <<>>)
                 \o ss[i].text
                 \o (IF i = n THEN <<"}">> \o closing ELSE <<>>))]

\* The text test, passed only by nodes without children.
IsTextNodeChildless(node) ==
    /\ node.type = "TEXT" /\ node.characters.has /\ node.characters.v # <<>>
    /\ ~(node.children.has /\ node.children.v # <<>>)

\* node.type === 'TEXT' && node.characters
IsTextNode(node) ==
    node.type = "TEXT" /\ node.characters.has /\ node.characters.v # <<>>

\* node.children && node.children.length > 0
HasChildren(node) == NonEmptyList(node.children)

\* The depth children are emitted at, left at the parent's.
ChildDepthSame(depth) == depth

\* generateJSXFromNode(child, depth + 1)
ChildDepth(depth) == depth + 1

RECURSIVE GenerateJSXFromNode(_, _)
RECURSIVE ChildrenJSX(_, _)
\* node.children.map(child => generateJSXFromNode(child, depth + 1)).join('\n')
ChildrenJSX(children, depth) ==
    IF children = <<>> THEN <<>>
    ELSE GenerateJSXFromNode(children[1], ChildDepth(depth))
         \o ChildrenJSX(Tail(children), depth)

\* generateJSXFromNode(node, depth)
GenerateJSXFromNode(node, depth) ==
    IF IsTextNode(node)
    THEN OpenTag(node, depth, <<">">>)
         \o <<Line(Indent(depth) + 2, <<"{">> \o JsonString(node.characters.v) \o <<"}">>)>>
         \o <<Line(Indent(depth), <<"</div>">>)>>
    ELSE IF HasChildren(node)
    THEN OpenTag(node, depth, <<">">>)
         \o ChildrenJSX(node.children.v, depth)
         \o <<Line(Indent(depth), <<"</div>">>)>>
    ELSE OpenTag(node, depth, <<" ", "/>">>)

LowerChars ==
    <<"a", "b", "c", "d", "e", "f", "g", "h", "i", "j", "k", "l", "m",
      "n", "o", "p", "q", "r", "s", "t", "u", "v", "w", "x", "y", "z">>

UpperChars ==
    <<"A", "B", "C", "D", "E", "F", "G", "H", "I", "J", "K", "L", "M",
      "N", "O", "P", "Q", "R", "S", "T", "U", "V", "W", "X", "Y", "Z">>

IsLower(c) == \E i \in 1..Len(LowerChars) : LowerChars[i] = c

IsUpper(c) == \E i \in 1..Len(UpperChars) : UpperChars[i] = c

\* c.toUpperCase() for one character.
ToUpperCase(c) ==
    IF IsLower(c) THEN UpperChars[CHOOSE i \in 1..Len(LowerChars) : LowerChars[i] = c]
    ELSE c

\* c.toLowerCase() for one character.
ToLowerCase(c) ==
    IF IsUpper(c) THEN LowerChars[CHOOSE i \in 1..Len(UpperChars) : UpperChars[i] = c]
    ELSE c

\* The separator class, without the underscore.
IsSeparatorNoUnderscore(c) == c \in {" ", "\t", "\n", "-", "/"}

\* [\s-_/]
IsSeparator(c) == c \in {" ", "\t", "\n", "-", "_", "/"}

RECURSIVE SplitFrom(_, _, _, _)
\* name.split(/[\s-_/]+/) from the characters s on: word is the segment
\* being read, words the segments closed so far, inRun tells that the
\* previous character was a separator of the run being skipped.
SplitFrom(s, word, words, inRun) ==
    IF s = <<>> THEN Append(words, word)
    ELSE IF IsSeparator(s[1])
    THEN IF inRun THEN SplitFrom(Tail(s), word, words, TRUE)
         ELSE SplitFrom(Tail(s), <<>>, Append(words, word), TRUE)
    ELSE SplitFrom(Tail(s), Append(word, s[1]), words, FALSE)

\* word.charAt(0).toUpperCase() + word.slice(1).toLowerCase()
TitleCase(word) ==
    [i \in 1..Len(word) |-> IF i = 1 THEN ToUpperCase(word[i]) ELSE ToLowerCase(word[i])]

RECURSIVE Join(_)
\* words.join('')
Join(words) ==
    IF words = <<>> THEN <<>> ELSE words[1] \o Join(Tail(words))

\* [a-zA-Z0-9]
IsAlphanumeric(c) == IsLower(c) \/ IsUpper(c) \/ IsDigit(c)

RECURSIVE StripNonAlphanumeric(_)
\* s.replace(/[^a-zA-Z0-9]/g, '')
StripNonAlphanumeric(s) ==
    IF s = <<>> THEN <<>>
    ELSE (IF IsAlphanumeric(s[1]) THEN <<s[1]>> ELSE <<>>)
         \o StripNonAlphanumeric(Tail(s))

ComponentLiteral == <<"C", "o", "m", "p", "o", "n", "e", "n", "t">>

\* sanitizeComponentName(name)
SanitizeComponentName(name) ==
    LET words    == SplitFrom(name, <<>>, <<>>, FALSE)
        titled   == [i \in 1..Len(words) |-> TitleCase(words[i])]
        stripped == StripNonAlphanumeric(Join(titled))
    IN  IF stripped = <<>> THEN ComponentLiteral ELSE stripped

\* componentName || sanitizeComponentName(figmaNode.name)
FinalComponentName(job) ==
    IF job.componentName.has /\ job.componentName.v # <<>>
    THEN job.componentName.v
    ELSE SanitizeComponentName(job.node.name)

\* The lines `${prompt}` takes in a template.
PromptLines(additionalPrompt) ==
    IF additionalPrompt.has /\ additionalPrompt.v # ""
    THEN <<Line(0, <<>>), Line(0, <<"//", " ", additionalPrompt.v>>)>>
    ELSE <<Line(0, <<>>)>>

\* The last lines of every template.
TemplateEnd(name) ==
    <<Line(2, <<");">>), Line(0, <<"};">>), Line(0, <<>>),
      Line(0, <<"export", " ", "default", " ">> \o name \o <<";">>),
      Line(0, <<>>)>>

GenerateMUITSX(name, jsx, additionalPrompt) ==
    <<Line(0, <<"import React from 'react';">>),
      Line(0, <<"import { Box, BoxProps } from '@mui/material';">>)>>
    \o PromptLines(additionalPrompt)
    \o <<Line(0, <<"interface", " ">> \o name \o <<"Props", " ", "extends", " ", "BoxProps", " ", "{">>),
         Line(2, <<"className?: string;">>),
         Line(0, <<"}">>),
         Line(0, <<>>),
         Line(0, <<"export", " ", "const", " ">> \o name \o <<":", " ", "React.FC<">> \o name
                 \o <<"Props>", " ", "=", " ", "({ className, ...props }) => {">>),
         Line(2, <<"return (">>),
         Line(4, <<"<Box className={className} {...props}>">>)>>
    \o jsx
    \o <<Line(4, <<"</Box>">>)>>
    \o TemplateEnd(name)

GenerateMUIJSX(name, jsx, additionalPrompt) ==
    <<Line(0, <<"import React from 'react';">>),
      Line(0, <<"import { Box } from '@mui/material';">>)>>
    \o PromptLines(additionalPrompt)
    \o <<Line(0, <<"export", " ", "const", " ">> \o name
                 \o <<" ", "=", " ", "({ className, ...props }) => {">>),
         Line(2, <<"return (">>),
         Line(4, <<"<Box className={className} {...props}>">>)>>
    \o jsx
    \o <<Line(4, <<"</Box>">>)>>
    \o TemplateEnd(name)

\* The token standing for a backtick.
BackTick == "[backtick]"

GenerateStyledComponents(name, jsx, additionalPrompt) ==
    <<Line(0, <<"import React from 'react';">>),
      Line(0, <<"import styled from 'styled-components';">>)>>
    \o PromptLines(additionalPrompt)
    \o <<Line(0, <<"const Container = styled.div", BackTick>>),
         Line(2, <<"/* Add your styles here */">>),
         Line(0, <<BackTick, ";">>),
         Line(0, <<>>),
         Line(0, <<"export", " ", "const", " ">> \o name
                 \o <<" ", "=", " ", "({ className }) => {">>),
         Line(2, <<"return (">>),
         Line(4, <<"<Container className={className}>">>)>>
    \o jsx
    \o <<Line(4, <<"</Container>">>)>>
    \o TemplateEnd(name)

GenerateVanillaJSX(name, jsx, additionalPrompt) ==
    <<Line(0, <<"import React from 'react';">>)>>
    \o PromptLines(additionalPrompt)
    \o <<Line(0, <<"interface", " ">> \o name \o <<"Props", " ", "{">>),
         Line(2, <<"className?: string;">>),
         Line(0, <<"}">>),
         Line(0, <<>>),
         Line(0, <<"export", " ", "const", " ">> \o name \o <<":", " ", "React.FC<">> \o name
                 \o <<"Props>", " ", "=", " ", "({ className }) => {">>),
         Line(2, <<"return (">>),
         Line(4, <<"<div className={className}>">>)>>
    \o jsx
    \o <<Line(4, <<"</div>">>)>>
    \o TemplateEnd(name)

\* The template chosen, with the MUI one taken when nothing matches.
VariantDefaultMui(framework) ==
    IF framework.has /\ framework.v \in {"mui-tsx", "mui-jsx", "styled-components", "vanilla-jsx"}
    THEN framework.v
    ELSE "mui-tsx"

\* framework: string = 'vanilla-jsx', then the switch with its default.
Variant(framework) ==
    IF framework.has /\ framework.v \in {"mui-tsx", "mui-jsx", "styled-components"}
    THEN framework.v
    ELSE "vanilla-jsx"

\* The depth generateReactComponent emits the root at.
RootDepth == 2

\* generateReactComponent(figmaNode, framework, componentName, additionalPrompt)
GenerateReactComponent(job) ==
    LET name == FinalComponentName(job)
        jsx  == GenerateJSXFromNode(job.node, RootDepth)
    IN  CASE Variant(job.framework) = "mui-tsx" ->
                GenerateMUITSX(name, jsx, job.additionalPrompt)
          [] Variant(job.framework) = "mui-jsx" ->
                GenerateMUIJSX(name, jsx, job.additionalPrompt)
          [] Variant(job.framework) = "styled-components" ->
                GenerateStyledComponents(name, jsx, job.additionalPrompt)
          [] OTHER ->
                GenerateVanillaJSX(name, jsx, job.additionalPrompt)

\* ------------------------------------------------------------------------
\* Calls of the compiler's functions on design nodes
\* ------------------------------------------------------------------------
MaxNameLen == 3

\* A call: the root node, the depth generateJSXFromNode is given, and the
\* other arguments of generateReactComponent.
JobOf(node, depth, framework, componentName, additionalPrompt) ==
    [node |-> node, depth |-> depth, framework |-> framework,
     componentName |-> componentName, additionalPrompt |-> additionalPrompt]

\* A call with a node alone.
NodeJob(node) == JobOf(node, 0, NoString, NoList, NoString)

ExampleName ==
    <<"m", "y", " ", "c", "o", "o", "l", "-", "f", "r", "a", "m", "e", "/", "2">>

QuestionMarks == <<"?", "?", "?">>

\* Node names: every string of up to MaxNameLen characters over a letter of
\* each case, a digit, the four kinds of separator and a character that is
\* none of these, and the two names the specification gives.
NodeNames ==
    UNION {[1..n -> {"a", "B", " ", "-", "_", "/", "?", "2"}] : n \in 0..MaxNameLen}
    \cup {ExampleName, QuestionMarks}

\* Calls with componentName absent, empty and given.
NameJobs ==
    {JobOf(BareNode(name, "FRAME"), 0, NoString, cn, NoString) :
        name \in NodeNames, cn \in {NoList, Some(<<>>), Some(<<"C", "a", "r", "d">>)}}

\* Paints as the Figma API sends them: a SOLID paint carries a colour, an
\* image or gradient paint does not.
Paints ==
    {PaintOf(vis, "SOLID", TRUE, c, o) :
        vis \in {"absent", "true", "false"},
        c \in {ColorOf(1000, 0, 0, 1000), ColorOf(0, 502, 1000, 500)},
        o \in {NoNumber, Some(500), Some(1000)}}
    \cup {PaintOf(vis, t, FALSE, ColorOf(0, 0, 0, 1000), o) :
        vis \in {"absent", "true", "false"}, t \in {"IMAGE", "GRADIENT_LINEAR"},
        o \in {NoNumber, Some(500)}}

\* Nodes with fills absent, empty, of one paint, or of a paint followed by
\* a green one, and with a flat background absent, opaque or translucent.
PaintJobs ==
    LET green == PaintOf("absent", "SOLID", TRUE, ColorOf(0, 1000, 0, 1000), NoNumber)
        lists == {NoList, Some(<<>>)}
                 \cup {Some(<<p>>) : p \in Paints}
                 \cup {Some(<<p, green>>) : p \in Paints}
        flats == {NoColor, Some(ColorOf(1000, 1000, 1000, 1000)),
                  Some(ColorOf(200, 200, 200, 250))}
    IN  {NodeJob([BareNode(<<"F">>, "FRAME") EXCEPT !.fills = f, !.backgroundColor = bg]) :
            f \in lists, bg \in flats}

\* Nodes with and without auto-layout, each spacing absent, 0 or non-zero.
LayoutJobs ==
    LET modes    == {NoString, Some("NONE"), Some("HORIZONTAL"), Some("VERTICAL")}
        spacings == {NoNumber, Some(0), Some(5)}
    IN  {NodeJob([BareNode(<<"F">>, "FRAME") EXCEPT
                    !.layoutMode = lm, !.paddingLeft = pl, !.paddingRight = pr,
                    !.paddingTop = pt, !.paddingBottom = pb, !.itemSpacing = gap]) :
            lm \in modes, pl \in spacings, pr \in spacings, pt \in spacings,
            pb \in {NoNumber, Some(0), Some(12)}, gap \in spacings}

\* Auto-layout nodes with each alignment absent, known or unknown.
AlignmentJobs ==
    LET primary == {NoString, Some("MIN"), Some("CENTER"), Some("MAX"),
                    Some("SPACE_BETWEEN"), Some("BASELINE")}
        counter == {NoString, Some("MIN"), Some("CENTER"), Some("MAX"), Some("BASELINE")}
    IN  {NodeJob([BareNode(<<"F">>, "FRAME") EXCEPT
                    !.layoutMode = lm, !.primaryAxisAlignItems = pa,
                    !.counterAxisAlignItems = ca]) :
            lm \in {Some("HORIZONTAL"), Some("VERTICAL")}, pa \in primary, ca \in counter}

Leaf == BareNode(<<"a">>, "FRAME")

BoxLeaf ==
    [BareNode(<<"b">>, "RECTANGLE") EXCEPT
        !.absoluteBoundingBox = [has |-> TRUE, width |-> 100, height |-> 50]]

TextLeaf == [BareNode(<<"t">>, "TEXT") EXCEPT !.characters = Some(<<"H", "i">>)]

WithChildren(node, kids) == [node EXCEPT !.children = Some(kids)]

\* Nodes without box, paints, background, layout mode and characters, their
\* other fields varied.
PlainJobs ==
    LET styles == {NoTextStyle, Some(TextStyleOf(0, "", 0, 0, 0, "")),
                   Some(TextStyleOf(16, "", 0, 0, 0, "")),
                   Some(TextStyleOf(16, "Inter", 700, 1, 24, "CENTER"))}
    IN  {NodeJob([BareNode(<<"F">>, ty) EXCEPT
                    !.cornerRadius = cr, !.opacity = op, !.layoutGrow = lg,
                    !.style = st, !.children = ch, !.paddingLeft = pl,
                    !.characters = chars]) :
            ty \in {"FRAME", "TEXT"}, cr \in {NoNumber, Some(0), Some(8)},
            op \in {NoNumber, Some(500), Some(1000)},
            lg \in {NoNumber, Some(0), Some(1)}, st \in styles,
            ch \in {NoList, Some(<<>>), Some(<<Leaf>>)},
            pl \in {NoNumber, Some(5)}, chars \in {NoList, Some(<<>>)}}

\* Trees of up to three levels: leaves with and without text, parents that
\* are frames, text nodes with characters and text nodes without.
Trees ==
    LET quoted  == [BareNode(<<"q">>, "TEXT") EXCEPT
                        !.characters = Some(<<"a", "\"", "b", "\n", "c">>)]
        empty   == [BareNode(<<"e">>, "TEXT") EXCEPT !.characters = Some(<<>>)]
        row     == [BareNode(<<"r">>, "FRAME") EXCEPT
                        !.layoutMode = Some("HORIZONTAL"), !.itemSpacing = Some(5)]
        leaves  == {Leaf, BoxLeaf, TextLeaf, quoted, empty}
        parents == {Leaf, TextLeaf, empty, row}
        level1  == {WithChildren(p, <<k>>) : p \in parents, k \in leaves}
                   \cup {WithChildren(p, <<k1, k2>>) :
                            p \in parents, k1 \in leaves, k2 \in leaves}
        level2  == {WithChildren(Leaf, <<WithChildren(p, <<k1, k2>>), k3>>) :
                        p \in {Leaf, TextLeaf}, k1 \in {BoxLeaf, TextLeaf},
                        k2 \in {Leaf, TextLeaf},
                        k3 \in {BoxLeaf, WithChildren(Leaf, <<TextLeaf>>)}}
                   \cup {WithChildren(Leaf, <<k3, WithChildren(Leaf, <<k1, k2>>)>>) :
                        k1 \in {BoxLeaf, TextLeaf}, k2 \in {Leaf, TextLeaf},
                        k3 \in {BoxLeaf, TextLeaf}}
    IN  leaves \cup level1 \cup level2

TreeJobs ==
    {JobOf(t, d, NoString, NoList, NoString) : t \in Trees, d \in 0..2}

\* Calls of generateReactComponent with the framework absent, unknown and
\* each of the four variants.
FrameworkJobs ==
    {JobOf(t, 0, f, cn, ap) :
        t \in {BoxLeaf, TextLeaf, WithChildren(Leaf, <<BoxLeaf, TextLeaf>>)},
        f \in {NoString, Some(""), Some("tailwind"), Some("MUI-TSX"), Some("vanilla-jsx"),
               Some("mui-tsx"), Some("mui-jsx"), Some("styled-components")},
        cn \in {NoList, Some(<<"C", "a", "r", "d">>)},
        ap \in {NoString, Some(""), Some("dark mode")}}

Jobs ==
    NameJobs \cup PaintJobs \cup LayoutJobs \cup AlignmentJobs \cup PlainJobs
    \cup TreeJobs \cup FrameworkJobs

InitCompile ==
    /\ InitRetry
    /\ script = <<>>
    /\ InitCmdIdle
    /\ InitConfIdle
    /\ cstage = "input"
    /\ cin \in Jobs
    /\ cout = [style |-> <<>>, jsx |-> <<>>, name |-> <<>>, component |-> <<>>]

\* getStyleFromNode(node) is called.
DeriveStyle ==
    /\ cstage = "input"
    /\ cstage' = "style"
    /\ cout' = [cout EXCEPT !.style = GetStyleFromNode(cin.node)]
    /\ UNCHANGED <<cin, retryVars, script, cmdVars, confVars>>

\* generateJSXFromNode(node, depth) is called.
EmitMarkup ==
    /\ cstage = "input"
    /\ cstage' = "jsx"
    /\ cout' = [cout EXCEPT !.jsx = GenerateJSXFromNode(cin.node, cin.depth)]
    /\ UNCHANGED <<cin, retryVars, script, cmdVars, confVars>>

\* The name generateReactComponent uses is computed.
DeriveName ==
    /\ cstage = "input"
    /\ cstage' = "name"
    /\ cout' = [cout EXCEPT !.name = FinalComponentName(cin)]
    /\ UNCHANGED <<cin, retryVars, script, cmdVars, confVars>>

\* generateReactComponent(node, framework, componentName, additionalPrompt)
\* is called.
Generate ==
    /\ cstage = "input"
    /\ cstage' = "component"
    /\ cout' = [cout EXCEPT !.component = GenerateReactComponent(cin)]
    /\ UNCHANGED <<cin, retryVars, script, cmdVars, confVars>>

NextCompile == DeriveStyle \/ EmitMarkup \/ DeriveName \/ Generate

SpecCompile == InitCompile /\ [][NextCompile]_vars

\* ------------------------------------------------------------------------
\* Calls of setSelectedModel and getSelectedModel (src/utils/config), as
\* choose-model and to-react make them: one call at a time
\* ------------------------------------------------------------------------
\* What the calls of src/utils/config leave alone in a command's state.
cmdRest == <<cmd, cpc, token, url, exitCode, stderr, prompts, aiVars, dirs, files>>

\* The file the program finds is any of ConfigFiles.
InitConfig ==
    /\ InitRetry
    /\ script = <<>>
    /\ InitCompIdle
    /\ InitConfIdle
    /\ configFile \in ConfigFiles
    /\ cmd = "none"
    /\ cpc = "none"
    /\ token = [set |-> FALSE, val |-> ""]
    /\ url = [wellFormed |-> FALSE, path |-> "", key |-> "", hasNodeId |-> FALSE, nodeId |-> ""]
    /\ exitCode = 0
    /\ stderr = <<>>
    /\ prompts = [framework |-> "", componentName |-> <<>>, additionalPrompt |-> "",
                  outputPathInput |-> "", output |-> ""]
    /\ aiModel = ""
    /\ aiPc = "idle"
    /\ aiRequests = 0
    /\ aiResponse = [kind |-> "none", status |-> 0, statusText |-> "", data |-> AiNotJson]
    /\ aiResult = <<>>
    /\ aiRaised = <<>>
    /\ dirs = {}
    /\ files = {}

\* setSelectedModel(model) is called: readConfig() is awaited.
SetSelectedModel ==
    /\ cfgPc = "idle"
    /\ \E model \in ModelArguments : cfgCall' = [arg |-> model, cfg |-> EmptyConfig]
    /\ cfgPc' = "reading"
    /\ UNCHANGED <<configFile, aiModel, selected, lastSet, cmdRest>>
    /\ UNCHANGED <<retryVars, script, compVars>>

\* readConfig() resolved; cfg.selectedModel = model; saveConfig(cfg) starts
\* with fs.mkdir.
ConfigAssigned ==
    /\ cfgPc = "reading"
    /\ ReadConfig(configFile).kind # "null"
    /\ cfgCall' = [cfgCall EXCEPT
                     !.cfg = AssignSelectedModel(ReadConfig(configFile), cfgCall.arg)]
    /\ cfgPc' = "mkdir"
    /\ UNCHANGED <<configFile, aiModel, selected, lastSet, cmdRest>>
    /\ UNCHANGED <<retryVars, script, compVars>>

\* readConfig() resolved with null: the assignment throws and the call
\* rejects.
AssignThrows ==
    /\ cfgPc = "reading"
    /\ ReadConfig(configFile).kind = "null"
    /\ cfgPc' = "idle"
    /\ UNCHANGED <<configFile, aiModel, cfgCall, selected, lastSet, cmdRest>>
    /\ UNCHANGED <<retryVars, script, compVars>>

\* fs.mkdir(dir, {recursive: true}) resolves.
ConfigDirMade ==
    /\ cfgPc = "mkdir"
    /\ cfgPc' = "writing"
    /\ UNCHANGED <<configFile, aiModel, cfgCall, selected, lastSet, cmdRest>>
    /\ UNCHANGED <<retryVars, script, compVars>>

\* fs.mkdir or fs.writeFile rejects before anything is written: the call
\* rejects.
SaveConfigFails ==
    /\ cfgPc \in {"mkdir", "writing"}
    /\ cfgPc' = "idle"
    /\ UNCHANGED <<configFile, aiModel, cfgCall, selected, lastSet, cmdRest>>
    /\ UNCHANGED <<retryVars, script, compVars>>

\* fs.writeFile(filePath, JSON.stringify(config, null, 2)) resolves and so
\* does the call.
ConfigWritten ==
    /\ cfgPc = "writing"
    /\ configFile' = SaveConfig(cfgCall.cfg)
    /\ lastSet' = [has |-> TRUE, v |-> cfgCall.arg]
    /\ cfgPc' = "idle"
    /\ UNCHANGED <<aiModel, cfgCall, selected, cmdRest>>
    /\ UNCHANGED <<retryVars, script, compVars>>

\* getSelectedModel() is called and settles.
GetSelectedModelCalled ==
    /\ cfgPc = "idle"
    /\ selected' = GetSelectedModel(configFile)
    /\ cfgPc' = "got"
    /\ UNCHANGED <<configFile, aiModel, cfgCall, lastSet, cmdRest>>
    /\ UNCHANGED <<retryVars, script, compVars>>

\* to-react: const aiModel = (await getSelectedModel()) ?? 'gpt-4.5o'
ModelChosen ==
    /\ cfgPc = "got"
    /\ selected.kind # "thrown"
    /\ aiModel' = ModelToUse(selected)
    /\ cfgPc' = "idle"
    /\ UNCHANGED <<configFile, cfgCall, selected, lastSet, cmdRest>>
    /\ UNCHANGED <<retryVars, script, compVars>>

\* getSelectedModel() rejected: its caller's catch block takes over.
ModelLookupThrown ==
    /\ cfgPc = "got"
    /\ selected.kind = "thrown"
    /\ cfgPc' = "idle"
    /\ UNCHANGED <<configFile, aiModel, cfgCall, selected, lastSet, cmdRest>>
    /\ UNCHANGED <<retryVars, script, compVars>>

NextConfig ==
    \/ SetSelectedModel
    \/ ConfigAssigned
    \/ AssignThrows
    \/ ConfigDirMade
    \/ SaveConfigFails
    \/ ConfigWritten
    \/ GetSelectedModelCalled
    \/ ModelChosen
    \/ ModelLookupThrown

SpecConfig == InitConfig /\ [][NextConfig]_vars

\* ------------------------------------------------------------------------
\* Properties of figmaApiRequest
\* ------------------------------------------------------------------------
\* The current attempt is under way: its request was issued and the loop
\* variable has not moved on.
InAttempt == pc \notin {"idle", "loop"}

\* The current attempt's fetch() resolved with status s.
LastStatus(s) == InAttempt /\ response.kind = "response" /\ response.status = s

\* The current attempt's fetch() resolved with a 2xx status.
Last2xx == InAttempt /\ response.kind = "response" /\ response.status \in 200..299

LastWait == waits[Len(waits)]

MinOf(a, b) == IF a <= b THEN a ELSE b

AllDigits(s) == \A i \in 1..Len(s) : s[i] \in {"0", "1", "2", "3", "4", "5", "6", "7", "8", "9"}

RECURSIVE DecimalValue(_)
\* The number a string of decimal digits denotes.
DecimalValue(s) ==
    IF s = <<>> THEN 0
    ELSE 10 * DecimalValue(SubSeq(s, 1, Len(s) - 1))
         + (CHOOSE d \in 0..9 : DigitChars[d + 1] = s[Len(s)])

\* The header is missing.
HeaderAbsent(hdr) == ~hdr.present

\* The header is there and is a decimal number of seconds.
HeaderNumeric(hdr) == hdr.present /\ hdr.val # <<>> /\ AllDigits(hdr.val)

\* The header is there but is not a number.
HeaderUnparseable(hdr) == hdr.present /\ (hdr.val = <<>> \/ ~AllDigits(hdr.val))

HasTerminalMarker(msg) ==
    \/ Includes(msg, <<"4", "0", "1">>)
    \/ Includes(msg, <<"4", "0", "4">>)
    \/ Includes(msg, <<"Invalid", "Figma", "token">>)

\* C1 (as claimed): once an attempt that is not the last one has received
\* status 404, the call only goes on to raise the not-found error: it does
\* not sleep and it issues no further request.
C1_NotFoundIsTerminal ==
    (LastStatus(404) /\ attempt < maxRetries) =>
        /\ pc \in {"classify", "catch", "thrown"}
        /\ (pc = "thrown" => raised = Defined(MsgNotFound))

\* C2: once an attempt that is not the last one has received status 401, no
\* step of the call issues a request or starts a wait, and the call ends by
\* raising the invalid-token error.
C2_UnauthorizedIsTerminal ==
    [][(LastStatus(401) /\ attempt < maxRetries) =>
        /\ requests' = requests
        /\ waits' = waits
        /\ pc' \in {"catch", "thrown"}
        /\ (pc' = "thrown" => raised' = Defined(MsgInvalidToken))]_vars

C2_Witness ==
    /\ pc = "thrown"
    /\ LastStatus(401)
    /\ attempt < maxRetries
    /\ requests = attempt
    /\ raised = Defined(MsgInvalidToken)

\* C3: a call with maxRetries >= 1 never issues more than maxRetries
\* requests.
C3_AtMostMaxRetriesRequests ==
    maxRetries >= 1 => requests <= maxRetries

C3_Witness ==
    /\ pc = "thrown"
    /\ maxRetries = 3
    /\ requests = 3
    /\ Len(waits) = 2

\* C4: a call with maxRetries >= 1 returns only the body of a 2xx response,
\* and when it ends otherwise it throws a defined error, which is the error
\* caught in the last attempt that was performed.
C4_LastErrorIsRaised ==
    maxRetries >= 1 =>
        /\ pc = "returned" => (Last2xx /\ result = response.body)
        /\ pc \in {"returned", "thrown"} => requests >= 1
        /\ pc = "thrown" =>
            /\ raised.defined
            /\ raised.msg = error.msg
            /\ errorAt = requests

C4_Witness ==
    /\ pc = "thrown"
    /\ requests = 3
    /\ LastStatus(500)
    /\ raised = Defined(MsgStatus(500))
    /\ waits[1].kind = "rate"
    /\ waits[2].kind = "net"

C6_StatedWait(n, hdr) ==
    IF n = 1
    THEN MinOf(IF HeaderNumeric(hdr) THEN DecimalValue(hdr.val) ELSE 60, 30) * 1000
    ELSE (2 ^ (n - 1)) * 1000

C7_DefaultRetryAfter ==
    (/\ pc = "sleepRate"
     /\ attempt = 1
     /\ (HeaderAbsent(response.hdr) \/ HeaderUnparseable(response.hdr)))
    => /\ retryAfter = Num(60)
       /\ LastWait = [kind |-> "rate", ms |-> Num(30000)]

\* C8: once the last allowed attempt has received status 429, no step
\* issues a request or starts a wait, and the call ends by raising the
\* rate-limit-exceeded error.
C8_RateLimitExceeded ==
    [][(LastStatus(429) /\ attempt = maxRetries) =>
        /\ requests' = requests
        /\ waits' = waits
        /\ pc' \in {"catch", "thrown"}
        /\ (pc' = "thrown" => raised' = Defined(MsgRateLimit(maxRetries)))]_vars

C8_Witness ==
    /\ pc = "thrown"
    /\ LastStatus(429)
    /\ attempt = maxRetries
    /\ maxRetries = 3
    /\ requests = 3
    /\ raised = Defined(MsgRateLimit(3))

\* The failures C9 calls network-class: a non-2xx status other than 429,
\* 404 and 401, or a rejected fetch whose message has no terminal marker.
C9_NetworkClassFailure ==
    \/ /\ response.kind = "response"
       /\ response.status \notin 200..299
       /\ response.status \notin {429, 404, 401}
    \/ /\ response.kind = "rejected"
       /\ ~HasTerminalMarker(error.msg)

\* C9: a network-class failure of attempt n < maxRetries starts one wait of
\* min(2^(n-1), 8) seconds; when the wait ends attempt n+1 is within the
\* limit and its request is the next step.
C9_NetworkBackoff ==
    [][/\ (pc = "catch" /\ attempt < maxRetries /\ C9_NetworkClassFailure)
          => /\ pc' = "sleepNet"
             /\ requests' = requests
             /\ waits' = Append(waits, [kind |-> "net",
                                        ms |-> Num(MinOf(2 ^ (attempt - 1), 8) * 1000)])
       /\ pc = "sleepNet"
          => /\ pc' = "loop"
             /\ attempt' = attempt + 1
             /\ attempt' <= maxRetries
             /\ waits' = waits
       /\ (pc = "loop" /\ attempt <= maxRetries)
          => /\ pc' = "fetching"
             /\ requests' = attempt
             /\ waits' = waits]_vars

C9_Witness ==
    /\ pc = "fetching"
    /\ requests = 6
    /\ LastWait = [kind |-> "net", ms |-> Num(8000)]
    /\ waits[4] = [kind |-> "net", ms |-> Num(8000)]
    /\ waits[3] = [kind |-> "net", ms |-> Num(4000)]
    /\ waits[1] = [kind |-> "net", ms |-> Num(1000)]

\* C10 (as claimed): every wait after a 429 is at most 30 seconds and every
\* wait after a network-class error is at most 8 seconds.  (A NaN delay
\* makes setTimeout fire at once, so it is within both limits.)
C10_WaitsAreCapped ==
    \A i \in 1..Len(waits) :
        \/ waits[i].ms.nan
        \/ /\ waits[i].kind = "rate" => waits[i].ms.v <= 30000
           /\ waits[i].kind = "net" => waits[i].ms.v <= 8000
\* The answers of C11: 429 with retry-after 2, then 500, then 200.
C11_Script ==
    <<Resolves(ResponseOf(429, Header(<<"2">>), "doc1")),
      Resolves(ResponseOf(500, NullHeader, "doc1")),
      Resolves(ResponseOf(200, NullHeader, "doc1"))>>

\* C11: against the answers 429 (retry-after 2), 500, 200 and with
\* maxRetries = 3, every request but the first comes after exactly one wait,
\* the first wait is a rate-limit wait of 2 s and the second a network
\* backoff, no error is thrown, and the call only ends at the third request,
\* returning the parsed body of the 200 response.
C11_ScriptedRun ==
    (script = C11_Script /\ maxRetries = 3 /\ pc # "idle") =>
        /\ requests <= 3
        /\ pc \in {"fetching", "classify", "parsing", "catch", "returned"}
              => Len(waits) = requests - 1
        /\ pc \in {"sleepRate", "sleepNet"} => Len(waits) = requests
        /\ Len(waits) >= 1 => waits[1] = [kind |-> "rate", ms |-> Num(2000)]
        /\ Len(waits) >= 2 => waits[2].kind = "net"
        /\ pc # "thrown"
        /\ pc = "returned" => (requests = 3 /\ Len(waits) = 2 /\ result = "doc1")

C11_Witness ==
    /\ script = C11_Script
    /\ maxRetries = 3
    /\ pc = "returned"
    /\ requests = 3
    /\ Len(waits) = 2
    /\ result = "doc1"

\* ------------------------------------------------------------------------
\* Properties of the commands
\* ------------------------------------------------------------------------
\* FIGMA_TOKEN is unset or empty.
TokenAbsent == ~token.set \/ token.val = ""

\* The URL argument carries a file key and a node id.
UrlHasKeyAndNode ==
    /\ url.wellFormed
    /\ url.path \in {"design", "file"}
    /\ url.key # ""
    /\ url.hasNodeId
    /\ url.nodeId # ""

Reported(msg) == \E i \in 1..Len(stderr) : stderr[i] = msg

CommandOver == cpc \in {"exited", "done"}

\* C12, as stated: in frames, frame and to-react, when FIGMA_TOKEN is unset
\* or empty the command reports the missing token and exits with status 1
\* before any HTTP request is issued.
C12_MissingTokenReported ==
    (cmd \in Commands /\ TokenAbsent /\ CommandOver) =>
        /\ exitCode = 1
        /\ Reported(MsgTokenNotSet)
        /\ requests = 0
        /\ aiRequests = 0

\* C12, amended: when FIGMA_TOKEN is unset or empty no HTTP request is ever
\* issued and the command can only end by exiting with status 1; frames and
\* frame, and to-react when its URL carries a file key and a node id, report
\* the missing token; to-react with any other URL reports the invalid URL
\* instead, and nothing else.
C12_MissingTokenExits ==
    (cmd \in Commands /\ TokenAbsent) =>
        /\ requests = 0
        /\ aiRequests = 0
        /\ pc = "idle"
        /\ aiPc = "idle"
        /\ cpc \in {"parseUrl", "tokenCheck", "exited"}
        /\ cpc = "exited" =>
            /\ exitCode = 1
            /\ stderr = IF cmd = "to-react" /\ ~UrlHasKeyAndNode
                        THEN <<MsgInvalidUrl>>
                        ELSE <<MsgTokenNotSet>>

\* to-react with a usable URL and an empty FIGMA_TOKEN has exited with the
\* missing-token report.
C12_Witness ==
    /\ cmd = "to-react"
    /\ UrlHasKeyAndNode
    /\ token.set
    /\ token.val = ""
    /\ cpc = "exited"
    /\ exitCode = 1
    /\ stderr = <<MsgTokenNotSet>>
    /\ requests = 0

\* The AI proxy's answer is outside 200..299.
AiNot2xx == aiResponse.kind = "response" /\ (aiResponse.status < 200 \/ aiResponse.status > 299)

\* The AI request failed in a way the retry executor would retry: a
\* transport exception, or a status outside 2xx other than 401 and 404.
AiRetryableFailure ==
    \/ aiResponse.kind = "rejected"
    \/ AiNot2xx /\ aiResponse.status \notin {401, 404}

\* C13, as stated: the AI-proxy call goes through the retry executor, so a
\* retryable failure of it is raised only after the attempt ceiling is reached.
C13_AiCallRetried ==
    (aiPc = "thrown" /\ AiRetryableFailure) => aiRequests = DefaultMaxRetries

\* C13, amended: the design-tree fetch goes through the retry executor, the
\* AI-proxy call does not. generateReactComponentWithAI issues exactly one
\* request; while it runs no wait is performed and no design-tree request is
\* made; an answer outside 2xx is raised at once, as an upstream error when
\* the body carries no message; a raised failure never leads to another
\* request.
C13_AiCallNotRetried ==
    [][ /\ aiRequests' <= 1
        /\ aiPc # "idle" =>
            /\ pc = "returned"
            /\ waits' = waits
            /\ requests' = requests
        /\ aiPc \in {"fetching", "answered", "returned", "thrown"} =>
            /\ aiRequests = 1
            /\ aiRequests' = 1
        /\ (aiPc = "answered" /\ AiNot2xx) =>
            /\ aiPc' = "thrown"
            /\ aiResponse.data.message = <<>> =>
                   Includes(aiRaised', <<"Upstream", "error">>)
        /\ aiPc = "thrown" => aiPc' = "thrown"
      ]_vars

\* The proxy answered 500 to the only request made, after a design-tree
\* fetch that needed a retry, and to-react has exited with status 1.
C13_Witness ==
    /\ cmd = "to-react"
    /\ requests > 1
    /\ aiPc = "thrown"
    /\ aiResponse.kind = "response"
    /\ aiResponse.status = 500
    /\ aiRequests = 1
    /\ cpc = "exited"
    /\ exitCode = 1

\* The 2xx answer carries choices, choices[0], choices[0].message and
\* choices[0].message.content.
AiFieldsPresent ==
    /\ aiResponse.data.json
    /\ ~aiResponse.data.isNull
    /\ aiResponse.data.hasChoices
    /\ Len(aiResponse.data.choices) > 0
    /\ aiResponse.data.choices[1].hasMessage
    /\ aiResponse.data.choices[1].hasContent

\* C14: generateReactComponentWithAI returns a source string only for a 2xx
\* answer that carries all of choices, choices[0], choices[0].message and
\* choices[0].message.content; when one is missing the call fails and no
\* further request is issued.
C14_MissingFieldFails ==
    /\ aiPc = "returned" => AiFieldsPresent
    /\ (aiPc \in {"returned", "thrown"} /\ aiResponse.kind = "response"
            /\ ~AiNot2xx /\ ~AiFieldsPresent) =>
        /\ aiPc = "thrown"
        /\ aiRequests = 1

\* ------------------------------------------------------------------------
\* Properties of the compiler
\* ------------------------------------------------------------------------
\* The values the declaration gives to key.
ValuesOf(style, key) == {style[i].text : i \in {j \in 1..Len(style) : style[j].key = key}}

\* The number of properties of the declaration under key.
CountOf(style, key) == Cardinality({j \in 1..Len(style) : style[j].key = key})

\* fills is non-empty and its first element is not explicitly invisible and
\* is SOLID.
FirstFillCounts(node) ==
    /\ node.fills.has
    /\ Len(node.fills.v) > 0
    /\ node.fills.v[1].visible # "false"
    /\ node.fills.v[1].type = "SOLID"

\* colour with its channels formatted under one of the alphas the paint or
\* the colour can supply.
FillColorTexts(fill) ==
    {RgbaToString([fill.color EXCEPT !.a = x]) :
        x \in {fill.color.a, 1000} \cup (IF fill.opacity.has THEN {fill.opacity.v} ELSE {})}

\* C15: the backgroundColor of the declaration is the first fill's colour
\* when fills is non-empty and its first element is not explicitly invisible
\* and is SOLID, whatever the flat backgroundColor; otherwise the flat
\* backgroundColor when present; otherwise absent. Fills after the first
\* are never considered.
C15_BackgroundPrecedence ==
    cstage = "style" =>
        LET node == cin.node
        IN  /\ CountOf(cout.style, "backgroundColor") <= 1
            /\ IF FirstFillCounts(node)
               THEN /\ CountOf(cout.style, "backgroundColor") = 1
                    /\ ValuesOf(cout.style, "backgroundColor") \subseteq FillColorTexts(node.fills.v[1])
               ELSE IF node.backgroundColor.has
               THEN ValuesOf(cout.style, "backgroundColor")
                        = {RgbaToString(node.backgroundColor.v)}
               ELSE CountOf(cout.style, "backgroundColor") = 0

\* A node with a white flat background, a red visible SOLID first fill and a
\* green second fill has the red background.
C15_Witness ==
    /\ cstage = "style"
    /\ cin.node.backgroundColor.has
    /\ cin.node.backgroundColor.v = ColorOf(1000, 1000, 1000, 1000)
    /\ cin.node.fills.has
    /\ Len(cin.node.fills.v) = 2
    /\ cin.node.fills.v[1] = PaintOf("true", "SOLID", TRUE, ColorOf(1000, 0, 0, 1000), NoNumber)
    /\ ValuesOf(cout.style, "backgroundColor")
           = {<<"rgb(", "2", "5", "5", ",", " ", "0", ",", " ", "0", ")">>}

\* Absent or empty.
NoneOf(list) == ~list.has \/ list.v = <<>>

\* The node has no bounding box, no fills, no strokes, no backgroundColor,
\* no layoutMode and no text.
Unadorned(node) ==
    /\ ~node.absoluteBoundingBox.has
    /\ NoneOf(node.fills)
    /\ NoneOf(node.strokes)
    /\ ~node.backgroundColor.has
    /\ ~node.layoutMode.has
    /\ NoneOf(node.characters)

\* `${indent}<div style={{}} />`
BareLeafAt(depth) ==
    <<[indent |-> 2 * depth, text |-> <<"<div", " ", "style={", "{}", "}", " ", "/>">>]>>

\* C16, as stated: a node with no bounding box, fills, strokes,
\* backgroundColor, layoutMode or text, whatever its other fields, gets an
\* empty declaration and is emitted as a bare self-closing leaf.
C16_UnadornedIsBareLeaf ==
    Unadorned(cin.node) =>
        /\ cstage = "style" => cout.style = <<>>
        /\ cstage = "jsx" => cout.jsx = BareLeafAt(cin.depth)

\* The text style sets no property.
TextStyleUnset(st) ==
    /\ st.fontSize = 0
    /\ st.fontFamily = ""
    /\ st.fontWeight = 0
    /\ st.letterSpacing = 0
    /\ st.lineHeightPx = 0
    /\ st.textAlignHorizontal = ""

\* What the other fields must be for nothing to be derived from them.
RestUnadorned(node) ==
    /\ ~node.cornerRadius.has \/ node.cornerRadius.v = 0
    /\ ~node.opacity.has \/ node.opacity.v >= 1000
    /\ ~node.layoutGrow.has \/ node.layoutGrow.v <= 0
    /\ NoneOf(node.children)
    /\ node.type = "TEXT" => (~node.style.has \/ TextStyleUnset(node.style.v))

\* C16, amended: a node with no bounding box, fills, strokes,
\* backgroundColor, layoutMode or text, which also has no non-zero
\* cornerRadius, no opacity below 1, no positive layoutGrow, no children and,
\* when its type is TEXT, no text style property, gets an empty declaration
\* and is emitted as a bare self-closing leaf.
C16_PlainIsBareLeaf ==
    (Unadorned(cin.node) /\ RestUnadorned(cin.node)) =>
        /\ cstage = "style" => cout.style = <<>>
        /\ cstage = "jsx" => cout.jsx = BareLeafAt(cin.depth)

\* A TEXT node with cornerRadius 0, opacity 1, layoutGrow 0, an empty text
\* style and a padding but no layoutMode is emitted as a bare leaf.
C16_Witness ==
    /\ cstage = "jsx"
    /\ Unadorned(cin.node)
    /\ RestUnadorned(cin.node)
    /\ cin.node.type = "TEXT"
    /\ cin.node.style.has
    /\ cin.node.cornerRadius.has
    /\ cin.node.opacity.has
    /\ cin.node.layoutGrow.has
    /\ cin.node.paddingLeft.has
    /\ cin.node.paddingLeft.v = 5
    /\ cout.jsx = BareLeafAt(0)

\* The property of the declaration a spacing field is written to.
SpacingKeys ==
    <<"paddingLeft", "paddingRight", "paddingTop", "paddingBottom", "gap">>

SpacingFields(node) ==
    <<node.paddingLeft, node.paddingRight, node.paddingTop, node.paddingBottom,
      node.itemSpacing>>

\* C17: for a node whose layoutMode is present, each of paddingLeft,
\* paddingRight, paddingTop, paddingBottom and gap is in the declaration
\* exactly when its source value is there and is not 0, and then as '<n>px'.
C17_SpacingWhenTruthy ==
    (cstage = "style" /\ cin.node.layoutMode.has) =>
        \A k \in 1..Len(SpacingKeys) :
            LET field == SpacingFields(cin.node)[k]
            IN  IF field.has /\ field.v # 0
                THEN /\ CountOf(cout.style, SpacingKeys[k]) = 1
                     /\ ValuesOf(cout.style, SpacingKeys[k])
                            = {NumberToString(field.v) \o <<"px">>}
                ELSE CountOf(cout.style, SpacingKeys[k]) = 0

\* paddingLeft 0 is left out and paddingRight 5 is written as "5px".
C17_Witness ==
    /\ cstage = "style"
    /\ cin.node.layoutMode.has
    /\ cin.node.paddingLeft = Some(0)
    /\ cin.node.paddingRight = Some(5)
    /\ CountOf(cout.style, "paddingLeft") = 0
    /\ ValuesOf(cout.style, "paddingRight") = {<<"5", "px">>}

\* The number of lines the style attribute of a node takes.
StyleLineCount(node) ==
    IF GetStyleFromNode(node) = <<>> THEN 1 ELSE Len(GetStyleFromNode(node)) + 2

\* The line ends with the tokens of suffix.
EndsWith(line, suffix) ==
    /\ Len(line.text) >= Len(suffix)
    /\ SubSeq(line.text, Len(line.text) - Len(suffix) + 1, Len(line.text)) = suffix

\* The markup opens a div with a style attribute at the given depth.
OpensDiv(out, depth) ==
    /\ Len(out) >= 1
    /\ out[1].indent = 2 * depth
    /\ Len(out[1].text) >= 3
    /\ SubSeq(out[1].text, 1, 3) = <<"<div", " ", "style={">>

ClosingLine(depth) == [indent |-> 2 * depth, text |-> <<"</div>">>]

\* A leaf element with a text child holding the escaped characters.
IsTextForm(out, node, depth) ==
    LET k == StyleLineCount(node)
    IN  /\ Len(out) = k + 2
        /\ EndsWith(out[k], <<"}", ">">>)
        /\ out[k + 1] = [indent |-> 2 * depth + 2,
                         text |-> <<"{">> \o JsonString(node.characters.v) \o <<"}">>]
        /\ out[k + 2] = ClosingLine(depth)

RECURSIVE LinesBefore(_, _, _)
\* The number of lines the markup of the first i - 1 children takes at depth.
LinesBefore(children, i, depth) ==
    IF i <= 1 THEN 0
    ELSE LinesBefore(children, i - 1, depth)
         + Len(GenerateJSXFromNode(children[i - 1], depth))

\* A container holding the markup of each child at depth + 1, once and in
\* the original order.
IsContainerForm(out, node, depth) ==
    LET k    == StyleLineCount(node)
        kids == node.children.v
        n    == Len(kids)
    IN  /\ Len(out) = k + LinesBefore(kids, n + 1, depth + 1) + 1
        /\ EndsWith(out[k], <<"}", ">">>)
        /\ \A i \in 1..n :
               SubSeq(out, k + LinesBefore(kids, i, depth + 1) + 1,
                           k + LinesBefore(kids, i + 1, depth + 1))
                   = GenerateJSXFromNode(kids[i], depth + 1)
        /\ out[Len(out)] = ClosingLine(depth)

\* A self-closing element with only the style attribute.
IsSelfClosingForm(out, node, depth) ==
    LET k == StyleLineCount(node)
    IN  /\ Len(out) = k
        /\ EndsWith(out[k], <<"}", " ", "/>">>)

\* C18: generateJSXFromNode emits exactly one of three forms, in this
\* priority: a TEXT node with non-empty characters is a leaf element with a
\* text child; otherwise a node with a non-empty children sequence is a
\* container holding each child's markup at depth + 1, once and in order;
\* otherwise the node is a self-closing element with only the style attribute.
C18_ThreeForms ==
    cstage = "jsx" =>
        LET node  == cin.node
            depth == cin.depth
            out   == cout.jsx
        IN  /\ OpensDiv(out, depth)
            /\ IF node.type = "TEXT" /\ node.characters.has /\ node.characters.v # <<>>
               THEN IsTextForm(out, node, depth)
               ELSE IF node.children.has /\ node.children.v # <<>>
               THEN IsContainerForm(out, node, depth)
               ELSE IsSelfClosingForm(out, node, depth)

\* A frame emitted at depth 1 holds its two children, a box and a text, at
\* depth 2 in that order.
C18_Witness ==
    /\ cstage = "jsx"
    /\ cin.depth = 1
    /\ cin.node.type = "FRAME"
    /\ cin.node.children = Some(<<BoxLeaf, TextLeaf>>)
    /\ Len(cout.jsx) = 9
    /\ cout.jsx[2].indent = 4
    /\ cout.jsx[6].indent = 4
    /\ cout.jsx[7] = [indent |-> 6, text |-> <<"{", "\"", "H", "i", "\"", "}">>]
    /\ cout.jsx[9] = ClosingLine(1)

\* The framework argument is absent or names none of the four variants.
FrameworkUnknown(framework) ==
    \/ ~framework.has
    \/ framework.v \notin {"mui-tsx", "mui-jsx", "styled-components", "vanilla-jsx"}

\* The line only the plain template has.
PlainWrapper == [indent |-> 4, text |-> <<"<div className={className}>">>]

HasLine(out, line) == \E i \in 1..Len(out) : out[i] = line

\* C19: generateReactComponent called with a framework that is absent or is
\* none of mui-tsx, mui-jsx, styled-components, vanilla-jsx returns what it
\* returns for vanilla-jsx on the same node, name and instructions.
C19_UnknownFrameworkIsPlain ==
    (cstage = "component" /\ FrameworkUnknown(cin.framework)) =>
        /\ cout.component = GenerateReactComponent([cin EXCEPT !.framework = Some("vanilla-jsx")])
        /\ HasLine(cout.component, PlainWrapper)

\* The framework "tailwind", with a name and instructions, gave the plain
\* template.
C19_Witness ==
    /\ cstage = "component"
    /\ cin.framework = Some("tailwind")
    /\ cin.componentName = Some(<<"C", "a", "r", "d">>)
    /\ cin.additionalPrompt = Some("dark mode")
    /\ HasLine(cout.component, PlainWrapper)
    /\ HasLine(cout.component, [indent |-> 0, text |-> <<"//", " ", "dark mode">>])

Separators == {" ", "\t", "\n", "-", "_", "/"}

RECURSIVE Derive(_, _, _)
\* The name read off character by character: separators start a new
\* segment, the first character of a segment is put in upper case and the
\* others in lower case, and only letters and digits are kept.
Derive(s, atStart, acc) ==
    IF s = <<>> THEN acc
    ELSE IF s[1] \in Separators THEN Derive(Tail(s), TRUE, acc)
    ELSE LET c == IF atStart THEN ToUpperCase(s[1]) ELSE ToLowerCase(s[1])
         IN  Derive(Tail(s), FALSE, IF IsAlphanumeric(c) THEN Append(acc, c) ELSE acc)

DerivedName(name) ==
    IF Derive(name, TRUE, <<>>) = <<>>
    THEN <<"C", "o", "m", "p", "o", "n", "e", "n", "t">>
    ELSE Derive(name, TRUE, <<>>)

\* C20: when componentName is absent the name used is the root node's name
\* split on runs of whitespace, hyphen, underscore and slash, each segment
\* title-cased, concatenated and stripped of every character that is not a
\* letter or digit, or "Component" when nothing is left: "my cool-frame/2"
\* gives "MyCoolFrame2" and "???" gives "Component".
C20_NameDerivation ==
    (cstage = "name" /\ ~cin.componentName.has) =>
        /\ cout.name = DerivedName(cin.node.name)
        /\ cin.node.name = ExampleName =>
               cout.name = <<"M", "y", "C", "o", "o", "l", "F", "r", "a", "m", "e", "2">>
        /\ cin.node.name = QuestionMarks =>
               cout.name = <<"C", "o", "m", "p", "o", "n", "e", "n", "t">>

\* The name of the node "my cool-frame/2" was derived with no componentName
\* given.
C20_Witness ==
    /\ cstage = "name"
    /\ ~cin.componentName.has
    /\ cin.node.name = ExampleName
    /\ cout.name = <<"M", "y", "C", "o", "o", "l", "F", "r", "a", "m", "e", "2">>

\* The alpha the first fill supplies: its opacity when it has one, and its
\* colour's own alpha channel when it has none.
OpacityElseOwnAlpha(fill) ==
    IF fill.opacity.has THEN fill.opacity.v ELSE fill.color.a

\* C21: for a first fill that is applied (visible and SOLID), the alpha used
\* to format the background colour is the fill's opacity when the fill has
\* an opacity, and the fill colour's own alpha channel when it has none.
C21_AlphaIsOpacityElseOwn ==
    (cstage = "style" /\ FirstFillCounts(cin.node)) =>
        LET fill == cin.node.fills.v[1]
        IN  ValuesOf(cout.style, "backgroundColor")
                = {RgbaToString([fill.color EXCEPT !.a = OpacityElseOwnAlpha(fill)])}

\* The alpha the code gives the first fill: its opacity when it has one, and
\* 1 when it has none.
OpacityElseOpaque(fill) == IF fill.opacity.has THEN fill.opacity.v ELSE 1000

\* C21, amended: for a first fill that is applied, the alpha used to format
\* the background colour is the fill's opacity when the fill has an
\* opacity, and 1 when it has none: the colour's own alpha channel is never
\* used.
C21_AlphaIsOpacityElseOpaque ==
    (cstage = "style" /\ FirstFillCounts(cin.node)) =>
        LET fill == cin.node.fills.v[1]
        IN  ValuesOf(cout.style, "backgroundColor")
                = {RgbaToString([fill.color EXCEPT !.a = OpacityElseOpaque(fill)])}

\* A visible SOLID first fill without opacity whose colour has alpha 0.5 is
\* formatted without an alpha.
C21_Witness ==
    /\ cstage = "style"
    /\ FirstFillCounts(cin.node)
    /\ ~cin.node.fills.v[1].opacity.has
    /\ cin.node.fills.v[1].color = ColorOf(0, 502, 1000, 500)
    /\ ValuesOf(cout.style, "backgroundColor")
           = {<<"rgb(", "0", ",", " ", "1", "2", "8", ",", " ", "2", "5", "5", ")">>}

\* The justifyContent stated for a primary-axis alignment field.
StatedJustifyContent(field) ==
    IF ~field.has THEN "flex-start"
    ELSE CASE field.v = "MIN" -> "flex-start"
           [] field.v = "CENTER" -> "center"
           [] field.v = "MAX" -> "flex-end"
           [] field.v = "SPACE_BETWEEN" -> "space-between"
           [] OTHER -> "flex-start"

\* The alignItems stated for a counter-axis alignment field.
StatedAlignItems(field) ==
    IF ~field.has THEN "flex-start"
    ELSE CASE field.v = "MIN" -> "flex-start"
           [] field.v = "CENTER" -> "center"
           [] field.v = "MAX" -> "flex-end"
           [] OTHER -> "flex-start"

\* C22: for every node whose layoutMode is present, the declaration contains
\* justifyContent and alignItems: justifyContent is flex-start, center,
\* flex-end or space-between for MIN, CENTER, MAX or SPACE_BETWEEN and
\* flex-start when the primary-axis alignment is unrecognized or absent;
\* alignItems is flex-start, center or flex-end for MIN, CENTER or MAX and
\* flex-start when the counter-axis alignment is unrecognized or absent.
C22_AlignmentsAlwaysDeclared ==
    (cstage = "style" /\ cin.node.layoutMode.has) =>
        /\ CountOf(cout.style, "justifyContent") = 1
        /\ ValuesOf(cout.style, "justifyContent")
               = {<<StatedJustifyContent(cin.node.primaryAxisAlignItems)>>}
        /\ CountOf(cout.style, "alignItems") = 1
        /\ ValuesOf(cout.style, "alignItems")
               = {<<StatedAlignItems(cin.node.counterAxisAlignItems)>>}

\* The attempt under way has raised an Error object whose message holds one
\* of the three markers, and it is not the last attempt allowed.
TerminalErrorCaught ==
    /\ pc = "catch"
    /\ error.isError
    /\ HasTerminalMarker(error.msg)
    /\ attempt < maxRetries

\* C23: when an attempt with attempts remaining raises an error whose
\* message contains 401, 404 or Invalid Figma token, the loop stops at once:
\* the next step raises that error, with no wait and no further request,
\* whether the error came from an HTTP status or from the transport.
C23_TerminalMarkerStopsLoop ==
    [][TerminalErrorCaught =>
        /\ pc' = "thrown"
        /\ raised' = Defined(error.msg)
        /\ waits' = waits
        /\ requests' = requests]_vars

\* A transport error that quotes a URL holding 404 is raised after the
\* second of several attempts, one wait and two requests behind it.
C23_Witness ==
    /\ pc = "thrown"
    /\ response.kind = "rejected"
    /\ error.isError
    /\ Includes(error.msg, <<"4", "0", "4">>)
    /\ attempt = 2
    /\ attempt < maxRetries
    /\ requests = 2
    /\ Len(waits) = 1
    /\ raised = Defined(error.msg)

\* C24: the core performs no logging of its own: during a call of
\* figmaApiRequest, with or without a spinner argument, nothing is written
\* to the console.
C24_CoreNeverLogs == pc # "idle" => consoleLogs = 0

\* C25: for every integer maxRetries, 0 and negative values included, a
\* call that does not return a body has issued at least one HTTP request
\* and raises a defined Error object, never undefined.
C25_AnyMaxRetriesRaisesDefined ==
    pc = "thrown" =>
        /\ requests >= 1
        /\ raised.defined

\* A sleep is under way.
Sleeping == pc \in {"sleepRate", "sleepNet"}

\* C26: every sleep, rate-limit wait or network backoff, is followed by
\* another HTTP attempt: a sleep is started only with attempts remaining and
\* never on an error that carries a terminal marker, the step after a sleep
\* re-enters the loop with its condition true, and the number of sleeps is
\* the number of requests while a sleep or the re-entry is under way and one
\* less at any other point of the call, its end included: exactly one sleep
\* separates two consecutive attempts and none follows the last one.
C26_SleepThenAttempt ==
    /\ Sleeping =>
        /\ attempt < maxRetries
        /\ Len(waits) = requests
        /\ pc = "sleepNet" => ~(error.isError /\ HasTerminalMarker(error.msg))
    /\ (pc = "loop" /\ requests > 0) =>
        /\ LoopCondition(attempt, maxRetries)
        /\ Len(waits) = requests
    /\ (pc \notin {"idle", "loop", "sleepRate", "sleepNet"} /\ requests > 0) =>
        Len(waits) = requests - 1
    /\ requests = 0 => waits = <<>>

\* A call of three attempts has ended after a rate-limit wait and a network
\* backoff, each followed by a request.
C26_Witness ==
    /\ pc \in {"thrown", "returned"}
    /\ requests = 3
    /\ Len(waits) = 2
    /\ waits[1].kind = "rate"
    /\ waits[2].kind = "net"

\* The rule the to-react prompt applies to a name the user types: not
\* empty, an uppercase ASCII letter first, ASCII letters and digits only.
PassesNameValidation(name) ==
    /\ name # <<>>
    /\ name[1] \in {UpperChars[i] : i \in 1..Len(UpperChars)}
    /\ \A i \in 1..Len(name) :
           \/ name[i] \in {UpperChars[j] : j \in 1..Len(UpperChars)}
           \/ name[i] \in {LowerChars[j] : j \in 1..Len(LowerChars)}
           \/ name[i] \in {"0", "1", "2", "3", "4", "5", "6", "7", "8", "9"}

\* No component name is passed, so the name is derived from the node's.
NameIsDerived == ~cin.componentName.has \/ cin.componentName.v = <<>>

\* C27: for every root node name, the component name derived by
\* sanitizeComponentName passes the validation rule applied to names the
\* user supplies: it is non-empty, starts with an uppercase ASCII letter and
\* contains only ASCII letters and digits.
C27_DerivedNameIsValid ==
    (cstage = "name" /\ NameIsDerived) => PassesNameValidation(cout.name)

\* The node is of type TEXT and has non-empty characters.
TextWithCharacters(node) ==
    node.type = "TEXT" /\ node.characters.has /\ Len(node.characters.v) > 0

RECURSIVE NodesNotBelowText(_)
RECURSIVE NodesNotBelowTextIn(_)
\* The nodes of the children's trees that do not lie below a TEXT node with
\* characters.
NodesNotBelowTextIn(children) ==
    IF children = <<>> THEN 0
    ELSE NodesNotBelowText(children[1]) + NodesNotBelowTextIn(Tail(children))

\* The nodes of the tree that do not lie below a TEXT node with characters.
NodesNotBelowText(node) ==
    IF TextWithCharacters(node) \/ ~node.children.has THEN 1
    ELSE 1 + NodesNotBelowTextIn(node.children.v)

RECURSIVE TreeSize(_)
RECURSIVE TreeSizeIn(_)
TreeSizeIn(children) ==
    IF children = <<>> THEN 0 ELSE TreeSize(children[1]) + TreeSizeIn(Tail(children))

\* The number of nodes of the tree.
TreeSize(node) ==
    IF node.children.has THEN 1 + TreeSizeIn(node.children.v) ELSE 1

\* The number of elements the markup opens.
ElementCount(out) ==
    Cardinality({i \in 1..Len(out) : out[i].text # <<>> /\ out[i].text[1] = "<div"})

\* C28: a TEXT node with non-empty characters that also has children is
\* emitted as the text leaf alone, none of its descendants appearing; for
\* every other node each child contributes its element, so the number of
\* elements emitted is the number of tree nodes that do not lie below such a
\* TEXT node.
C28_TextHidesDescendants ==
    cstage = "jsx" =>
        /\ ElementCount(cout.jsx) = NodesNotBelowText(cin.node)
        /\ TextWithCharacters(cin.node) =>
               /\ ElementCount(cout.jsx) = 1
               /\ IsTextForm(cout.jsx, cin.node, cin.depth)

\* A frame of five nodes whose first child is a text with two children of
\* its own is emitted as three elements.
C28_Witness ==
    /\ cstage = "jsx"
    /\ cin.node.type = "FRAME"
    /\ Len(cin.node.children.v) = 2
    /\ TextWithCharacters(cin.node.children.v[1])
    /\ Len(cin.node.children.v[1].children.v) = 2
    /\ TreeSize(cin.node) = 5
    /\ ElementCount(cout.jsx) = 3

\* to-react has ended after its design-tree fetch or its AI call failed.
ToReactFailed ==
    /\ cmd = "to-react"
    /\ CommandOver
    /\ pc = "thrown" \/ aiPc = "thrown"

\* C29: in to-react the output file is written only after
\* generateReactComponentWithAI has returned: a directory or file exists
\* only when the fetch and the AI call have both returned, the file holds
\* the text the AI call returned, and every run in which the fetch or the
\* AI call failed ends with exit status 1, no directory created and no file
\* written.
C29_WriteOnlyAfterAiSuccess ==
    /\ (dirs # {} \/ files # {}) =>
        /\ cmd = "to-react"
        /\ pc = "returned"
        /\ aiPc = "returned"
    /\ \A f \in files : f.content = aiResult
    /\ ToReactFailed =>
        /\ cpc = "exited"
        /\ exitCode = 1
        /\ dirs = {}
        /\ files = {}

\* to-react fetched the frame, the AI call then failed on its one request,
\* and the command exited with status 1 leaving nothing on disk.
C29_Witness ==
    /\ cmd = "to-react"
    /\ cpc = "exited"
    /\ pc = "returned"
    /\ aiPc = "thrown"
    /\ aiRequests = 1
    /\ exitCode = 1
    /\ dirs = {}
    /\ files = {}

\* ------------------------------------------------------------------------
\* Properties of the configuration
\* ------------------------------------------------------------------------
\* C30: after any sequence of setSelectedModel calls, getSelectedModel
\* returns the argument of the most recent call that completed; when no
\* call has completed and the file is missing or is not valid JSON,
\* getSelectedModel returns null; and whenever it returns null to-react
\* uses the fallback model gpt-4.5o.
C30_GetReturnsLastSet ==
    /\ cfgPc = "got" =>
        /\ lastSet.has => selected = [kind |-> "string", v |-> lastSet.v]
        /\ (~lastSet.has /\ configFile.state \in {"missing", "notjson"}) =>
               selected.kind = "null"
    /\ (cfgPc = "idle" /\ selected.kind = "null") => aiModel = "gpt-4.5o"

====
